---------------------------- MODULE Spec2Model ----------------------------
(***************************************************************************)
(* Model of the perfdar automaton engine: the embedded logic language      *)
(* (language/), the automaton vocabulary and its validating constructor    *)
(* (automatom/), and the transition system with its search enumerator      *)
(* (transition_system/).                                                   *)
(*                                                                         *)
(* A Rust panic (unwrap on Err/None, panic!) unwinds through every caller; *)
(* it is modelled as the outcome Panic of the operation that raised it and *)
(* of every operation that called it.                                      *)
(***************************************************************************)
EXTENDS Naturals, Sequences, FiniteSets, TLC

\* ------------------------------------------------------------------ bounds
\* Largest edge set handed to Automaton::new.
MaxEdges == 3
\* Number of next() calls made on one search enumerator.
MaxCalls == 4

\* ------------------------------------------------------- language: values
Bool(b) == [kind |-> "Bool", value |-> b]
Identifier(n) == [kind |-> "Identifier", name |-> n]

\* Evaluation::Bool / Evaluation::Void
EvalBool(b) == [kind |-> "EvalBool", value |-> b]
Void == [kind |-> "Void"]

\* Result / Option / panic outcomes
Ok(v) == [kind |-> "Ok", value |-> v]
Err(e) == [kind |-> "Err", error |-> e]
Panic == [kind |-> "Panic"]
None == [kind |-> "None"]
Some(v) == [kind |-> "Some", value |-> v]

RuntimeError(m) == [type |-> "RuntimeError", message |-> m]
TypeCheckingError(m) == [type |-> "TypeCheckingError", message |-> m]

\* -------------------------------------------------- language: expressions
Literal(v) == [tag |-> "Literal", value |-> v]
Parenthesized(e) == [tag |-> "Parenthesized", expr |-> e]
Binary(l, o, r) == [tag |-> "Binary", lhs |-> l, op |-> o, rhs |-> r]
Unary(o, e) == [tag |-> "Unary", op |-> o, expr |-> e]
Assigment(i, v) == [tag |-> "Assigment", identifier |-> i, value |-> v]

new_boolean(b) == Literal(Bool(b))
new_identifier(n) == Literal(Identifier(n))
new_simple_assignment(n, v) == Assigment(new_identifier(n), Literal(v))

\* -------------------------------------------------- language: environment
\* An Environment is a function from the declared identifiers to Values.
new_empty == [i \in {} |-> Bool(FALSE)]

contains(environment, identifier) == identifier \in DOMAIN environment

\* Environment::insert: refuses an identifier that is already declared.
insert(environment, identifier, value) ==
    IF contains(environment, identifier)
    THEN [ok |-> FALSE, environment |-> environment]
    ELSE [ok |-> TRUE,
          environment |-> [i \in DOMAIN environment \cup {identifier} |->
                              IF i = identifier THEN value ELSE environment[i]]]

\* A set that declares the identifier when it is not declared.
set_declaring(environment, identifier, value) ==
    [ok |-> TRUE,
     environment |-> [i \in DOMAIN environment \cup {identifier} |->
                         IF i = identifier THEN value ELSE environment[i]]]

\* A set that keeps no other declaration than the one it writes.
set_alone(environment, identifier, value) ==
    [ok |-> contains(environment, identifier),
     environment |-> IF contains(environment, identifier)
                     THEN [i \in {identifier} |-> value]
                     ELSE environment]

\* A set that reports success for a declared identifier without writing.
set_keeping(environment, identifier, value) ==
    [ok |-> contains(environment, identifier), environment |-> environment]

\* Environment::set: refuses an identifier that is not declared.
set(environment, identifier, value) ==
    IF ~contains(environment, identifier)
    THEN [ok |-> FALSE, environment |-> environment]
    ELSE [ok |-> TRUE, environment |-> [environment EXCEPT ![identifier] = value]]

\* Environment::is_disjoint: no key of this environment is a key of the other.
is_disjoint(environment, other) ==
    ~\E key \in DOMAIN environment : contains(other, key)

\* A concat that extends whether or not the keys overlap.
concat_overwriting(environment, other) ==
    [ok |-> TRUE,
     environment |-> [i \in DOMAIN environment \cup DOMAIN other |->
                         IF i \in DOMAIN other THEN other[i] ELSE environment[i]]]

\* Environment::concat: refuses an environment that shares a key, otherwise
\* extends the map with the other's entries.
concat(environment, other) ==
    IF ~is_disjoint(environment, other)
    THEN [ok |-> FALSE, environment |-> environment]
    ELSE [ok |-> TRUE,
          environment |-> [i \in DOMAIN environment \cup DOMAIN other |->
                              IF i \in DOMAIN other THEN other[i] ELSE environment[i]]]

\* -------------------------------------------------- language: interpreter
\* impl Into<bool> for Evaluation: panics on Void.
EvaluationIntoBool(evaluation) ==
    IF evaluation.kind = "EvalBool" THEN Ok(evaluation.value) ELSE Panic

\* impl Into<Value> for Evaluation: panics on Void.
EvaluationIntoValue(evaluation) ==
    IF evaluation.kind = "EvalBool" THEN Ok(Bool(evaluation.value)) ELSE Panic

\* A match that answers every operator as LogicalAnd.
BinaryOperatorApply_all_and(op, lhs_bool, rhs_bool) == lhs_bool /\ rhs_bool

\* A match that answers every operator with its left operand.
BinaryOperatorApply_left(op, lhs_bool, rhs_bool) == lhs_bool

\* The match on the binary operator in eval_expression.
BinaryOperatorApply(op, lhs_bool, rhs_bool) ==
    CASE op = "LogicalAnd" -> lhs_bool /\ rhs_bool
      [] op = "LogicalOr" -> lhs_bool \/ rhs_bool
      [] op \in {"Equal", "BiImplication"} -> lhs_bool = rhs_bool
      [] op = "NotEqual" -> lhs_bool # rhs_bool
      [] op = "Implication" -> ~lhs_bool \/ rhs_bool

\* The match on the unary operator in eval_expression: Negation pushes the
\* operand's boolean as it is.
UnaryOperatorApply(op, expr_bool) == expr_bool

\* The end of eval_expression: what is left on the stack.
eval_expression_result(stack) ==
    IF Len(stack) > 1
    THEN Err(RuntimeError("More than one element on the stack"))
    ELSE IF stack = <<>>
         THEN Ok(Void)
         ELSE IF Head(stack).kind = "Bool"
              THEN Ok(EvalBool(Head(stack).value))
              ELSE Err(RuntimeError("An identifier cannot be an evaluation"))

RECURSIVE eval_expression(_, _)
RECURSIVE eval_expression_loop(_, _, _)

\* The operands of a Binary or Unary node, evaluated by recursive calls whose
\* results are unwrapped (.ok().unwrap()) and converted to bool (.into()).
eval_operand(environment, expression) ==
    LET evaluation == eval_expression(environment, expression)
    IN  IF evaluation.kind # "Ok" THEN Panic ELSE EvaluationIntoBool(evaluation.value)

\* The while loop of eval_expression over its worklist and stack.
eval_expression_loop(environment, worklist, stack) ==
    IF worklist = <<>>
    THEN eval_expression_result(stack)
    ELSE LET current == Head(worklist)
             rest == Tail(worklist)
         IN  CASE current.tag = "Literal" ->
                    IF current.value.kind = "Identifier"
                    THEN IF contains(environment, current.value.name)
                         THEN eval_expression_loop(environment, rest,
                                  Append(stack, environment[current.value.name]))
                         ELSE Err(RuntimeError("Unknown identifier"))
                    ELSE eval_expression_loop(environment, rest, Append(stack, current.value))
               [] current.tag = "Parenthesized" ->
                    eval_expression_loop(environment, Append(rest, current.expr), stack)
               [] current.tag = "Binary" ->
                    LET lhs_bool == eval_operand(environment, current.lhs)
                        rhs_bool == eval_operand(environment, current.rhs)
                    IN  IF lhs_bool.kind # "Ok" \/ rhs_bool.kind # "Ok"
                        THEN Panic
                        ELSE eval_expression_loop(environment, rest,
                                 Append(stack, Bool(BinaryOperatorApply(current.op,
                                                        lhs_bool.value, rhs_bool.value))))
               [] current.tag = "Unary" ->
                    LET expr_bool == eval_operand(environment, current.expr)
                    IN  IF expr_bool.kind # "Ok"
                        THEN Panic
                        ELSE eval_expression_loop(environment, rest,
                                 Append(stack, Bool(UnaryOperatorApply(current.op,
                                                        expr_bool.value))))

\* Interpreter::eval_expression: Ok(Evaluation), Err(RuntimeError) or Panic.
eval_expression(environment, expression) ==
    eval_expression_loop(environment, <<expression>>, <<>>)

RECURSIVE eval_expression_identifier(_)
\* Interpreter::eval_expression_identifier: the name an expression denotes.
eval_expression_identifier(expression) ==
    CASE expression.tag = "Literal" ->
           IF expression.value.kind = "Bool"
           THEN Err(RuntimeError("Boolean is not an identifier"))
           ELSE Ok(expression.value.name)
      [] expression.tag = "Parenthesized" -> eval_expression_identifier(expression.expr)
      [] OTHER -> Err(RuntimeError("Cannot evaluate to an identifier"))

\* Interpreter::eval_statement on an interpreter holding `environment`:
\* result is None (success), Some(error) or Panic; environment is the
\* interpreter's environment afterwards (get_environment).
eval_statement(environment, statement) ==
    LET assign(ident, val) ==
            LET updated == set(environment, ident, val)
            IN  IF ~updated.ok
                THEN [result |-> Some(RuntimeError("Unknown identifier")),
                      environment |-> environment]
                ELSE [result |-> None, environment |-> updated.environment]
        convert(ident, val) ==
            IF val.kind = "Panic"
            THEN [result |-> Panic, environment |-> environment]
            ELSE assign(ident, val.value)
        evaluate(ident, evaluation) ==
            IF ident.kind = "Err"
            THEN [result |-> Some(ident.error), environment |-> environment]
            ELSE IF evaluation.kind = "Err"
            THEN [result |-> Some(evaluation.error), environment |-> environment]
            ELSE IF evaluation.kind = "Panic"
            THEN [result |-> Panic, environment |-> environment]
            ELSE convert(ident.value, EvaluationIntoValue(evaluation.value))
    IN  evaluate(eval_expression_identifier(statement.identifier),
                 eval_expression(environment, statement.value))

\* ------------------------------------------------- automaton vocabulary
In(n) == [dir |-> "In", name |-> n]
Out(n) == [dir |-> "Out", name |-> n]

\* impl PartialEq for Channel: the names decide, the direction does not.
ChannelEq(l, r) == l.name = r.name

\* HashSet<Channel>::contains under that equality.
ChannelsContain(channels, channel) == \E c \in channels : ChannelEq(c, channel)

Guard(e) == [node |-> e]
Invariant(e) == [node |-> e]
Update(s) == [node |-> Some(s)]
new_pure == [node |-> None]

\* Location derives PartialEq: variant, name and invariant all take part.
new_normal(n, inv) == [variant |-> "Normal", name |-> n, invariant |-> inv]
new_initial(n, inv) == [variant |-> "Initial", name |-> n, invariant |-> inv]

Edge(s, a, g, u, t) == [source |-> s, action |-> a, guard |-> g, update |-> u, target |-> t]

\* Edge derives PartialEq over its fields, the action compared as a Channel.
EdgeEq(l, r) ==
    /\ l.source = r.source
    /\ ChannelEq(l.action, r.action)
    /\ l.guard = r.guard
    /\ l.update = r.update
    /\ l.target = r.target

State(l, e) == [location |-> l, environment |-> e]

new_inconsistent(n) == [variant |-> "Inconsistent", name |-> n]
new_universal(n) == [variant |-> "Universal", name |-> n]

\* #[derive(PartialEq)] on Location: the variant and every field of it take
\* part in the comparison.
LocationEq(l, r) == l = r

\* What a value writes into the hasher is modelled as a sequence of tokens;
\* two values hash equally when they write the same tokens.
HashStr(s) == <<[str |-> s]>>

RECURSIVE HashLocations(_)
\* impl Hash for Location: the name alone for the named variants, the
\* component vector (its length, then each component) for a Conjunction.
LocationHash(location) ==
    IF location.variant = "Conjunction"
    THEN <<[len |-> Len(location.locations)]>> \o HashLocations(location.locations)
    ELSE HashStr(location.name)

HashLocations(locations) ==
    IF locations = <<>> THEN <<>>
    ELSE LocationHash(Head(locations)) \o HashLocations(Tail(locations))

\* A Channel hash that also feeds the direction to the hasher.
ChannelHash_with_direction(channel) == HashStr(channel.dir) \o HashStr(channel.name)

\* impl Hash for Channel: the name alone.
ChannelHash(channel) == HashStr(channel.name)

\* #[derive(Hash)] on Edge: the fields in declaration order.
EdgeHash(edge) ==
    LocationHash(edge.source) \o ChannelHash(edge.action)
        \o <<[node |-> edge.guard.node]>> \o <<[node |-> edge.update.node]>>
        \o LocationHash(edge.target)

\* HashSet<Channel>::is_disjoint under the Channel equality.
ChannelsDisjoint(channels, others) ==
    ~\E channel \in channels : ChannelsContain(others, channel)

RECURSIVE conjoin(_, _)
\* The fold of Invariant::new_conjunction: lhs = lhs && rhs for every
\* further invariant the set's iterator yields.
conjoin(lhs, rest) ==
    IF rest = <<>> THEN lhs
    ELSE conjoin(Binary(lhs, "LogicalAnd", Head(rest).node), Tail(rest))

\* Invariant::new_conjunction over a HashSet<Invariant> iterated in the given
\* order: panics on fewer than two invariants.
Invariant_new_conjunction(order) ==
    IF Len(order) < 2 THEN Panic
    ELSE Ok(Invariant(conjoin(order[1].node, Tail(order))))

IsAbsorbing(location) == location.variant \in {"Inconsistent", "Universal"}

\* filtered_locations: the Normal, Initial and Conjunction children, in order.
filtered_locations(locations) ==
    SelectSeq(locations, LAMBDA location : ~IsAbsorbing(location))

\* The HashSet<Invariant> collected from the retained children.
collected_invariants(locations) ==
    {filtered_locations(locations)[i].invariant :
        i \in 1..Len(filtered_locations(locations))}

\* The Conjunction location over the retained children, once their invariants
\* are conjoined.
conjunction_of(locations, conjoined) ==
    IF conjoined.kind = "Panic" THEN Panic
    ELSE Ok([variant |-> "Conjunction",
             locations |-> filtered_locations(locations),
             invariant |-> conjoined.value])

\* A new_conjunction without the two absorbing cases.
new_conjunction_retaining_only(locations, invariant_order) ==
    conjunction_of(locations, Invariant_new_conjunction(invariant_order))

\* Location::new_conjunction; invariant_order is the order in which the set of
\* the retained children's invariants is iterated.
new_conjunction(locations, invariant_order) ==
    IF \E i \in 1..Len(locations) : locations[i].variant = "Inconsistent"
    THEN Ok(new_inconsistent("some conjoined name"))
    ELSE IF \A i \in 1..Len(locations) : locations[i].variant = "Universal"
    THEN Ok(new_universal("some conjoined name"))
    ELSE conjunction_of(locations, Invariant_new_conjunction(invariant_order))

\* ------------------------------------------------------- edge semantics
\* The match on the guard's evaluation in Edge::enabled.
guard_value(evaluation) ==
    IF evaluation.kind = "EvalBool" THEN Ok(evaluation.value) ELSE Panic

\* An enabled that evaluates the guard wherever the state is.
Edge_enabled_anywhere(edge, state) ==
    LET matched(evaluation_result) ==
            CASE evaluation_result.kind = "Err" -> Ok(FALSE)
              [] evaluation_result.kind = "Panic" -> Panic
              [] OTHER -> guard_value(evaluation_result.value)
    IN  matched(eval_expression(state.environment, edge.guard.node))

\* Edge::enabled: Ok(FALSE), Ok(TRUE) or Panic. The interpreter's eval of a
\* guard is eval_expression of language/interpreter.rs.
Edge_enabled(edge, state) ==
    LET matched(evaluation_result) ==
            CASE evaluation_result.kind = "Err" -> Ok(FALSE)
              [] evaluation_result.kind = "Panic" -> Panic
              [] OTHER -> guard_value(evaluation_result.value)
    IN  IF edge.source # state.location
        THEN Ok(FALSE)
        ELSE matched(eval_expression(state.environment, edge.guard.node))

\* State::enables: the guard's evaluation is unwrapped.
State_enables(state, edge) ==
    LET unwrapped(result) == IF result.kind # "Ok" THEN Panic ELSE guard_value(result.value)
    IN  IF edge.source # state.location
        THEN Ok(FALSE)
        ELSE unwrapped(eval_expression(state.environment, edge.guard.node))

\* An execute that stays at the location it was given.
Edge_execute_in_place(edge, state) ==
    LET executed(evaluation) ==
            IF evaluation.result.kind # "None"
            THEN [result |-> Panic, state |-> state]
            ELSE [result |-> Ok(State(state.location, evaluation.environment)),
                  state |-> state]
    IN  IF edge.update.node.kind = "Some"
        THEN executed(eval_statement(state.environment, edge.update.node.value))
        ELSE [result |-> Ok(State(state.location, state.environment)), state |-> state]

\* An execute that takes a failed update for a no-op.
Edge_execute_ignoring_failure(edge, state) ==
    LET executed(evaluation) ==
            [result |-> Ok(State(edge.target, evaluation.environment)), state |-> state]
    IN  IF edge.update.node.kind = "Some"
        THEN executed(eval_statement(state.environment, edge.update.node.value))
        ELSE [result |-> Ok(State(edge.target, state.environment)), state |-> state]

\* Edge::execute: result is Ok(successor state) or Panic; state is the
\* caller's state afterwards (the interpreter works on a clone of
\* state.environment). The interpreter's eval of an update is eval_statement of
\* language/interpreter.rs.
Edge_execute(edge, state) ==
    LET executed(evaluation) ==
            IF evaluation.result.kind # "None"
            THEN [result |-> Panic, state |-> state]
            ELSE [result |-> Ok(State(edge.target, evaluation.environment)),
                  state |-> state]
    IN  IF edge.update.node.kind = "Some"
        THEN executed(eval_statement(state.environment, edge.update.node.value))
        ELSE [result |-> Ok(State(edge.target, state.environment)), state |-> state]

\* ------------------------------------------- environment: identifier checks
RECURSIVE missing_identifiers_in_expression_loop(_, _, _)
\* The worklist loop of Environment::missing_identifiers_in_expression.
missing_identifiers_in_expression_loop(environment, worklist, missing) ==
    IF worklist = <<>>
    THEN missing
    ELSE LET current == Head(worklist)
             rest == Tail(worklist)
         IN  CASE current.tag = "Literal" ->
                    missing_identifiers_in_expression_loop(environment, rest,
                        IF current.value.kind = "Identifier"
                           /\ ~contains(environment, current.value.name)
                        THEN Append(missing, current.value.name)
                        ELSE missing)
               [] current.tag = "Parenthesized" ->
                    missing_identifiers_in_expression_loop(environment,
                        Append(rest, current.expr), missing)
               [] current.tag = "Binary" ->
                    missing_identifiers_in_expression_loop(environment,
                        rest \o <<current.lhs, current.rhs>>, missing)
               [] current.tag = "Unary" ->
                    missing_identifiers_in_expression_loop(environment,
                        Append(rest, current.expr), missing)

missing_identifiers_in_expression(environment, expression) ==
    missing_identifiers_in_expression_loop(environment, <<expression>>, <<>>)

\* A statement check that looks at the assigned value only.
missing_identifiers_in_value_only(environment, statement) ==
    missing_identifiers_in_expression(environment, statement.value)

\* Environment::missing_identifiers_in_statement
missing_identifiers_in_statement(environment, statement) ==
    missing_identifiers_in_expression(environment, statement.identifier)
        \o missing_identifiers_in_expression(environment, statement.value)

\* What the constructor asks of a guard, an invariant (expressions) or an
\* update (a statement).
missing_identifiers_in_node(environment, node) ==
    IF node.tag = "Assigment"
    THEN missing_identifiers_in_statement(environment, node)
    ELSE missing_identifiers_in_expression(environment, node)

\* ------------------------------------------------- language: type checker
RECURSIVE check_value(_, _)
\* TypeChecker::check_value: an identifier has the type of the value it is
\* bound to.
check_value(environment, value) ==
    IF value.kind = "Bool"
    THEN Ok("Logical")
    ELSE IF contains(environment, value.name)
         THEN check_value(environment, environment[value.name])
         ELSE Err(TypeCheckingError("unknown identifier"))

RECURSIVE check_expression(_, _)
\* TypeChecker::check_expression: Ok(type), Err(TypeCheckingError) or Panic
\* (the operands' results are unwrapped).
check_expression(environment, expression) ==
    CASE expression.tag = "Literal" -> check_value(environment, expression.value)
      [] expression.tag = "Parenthesized" -> check_expression(environment, expression.expr)
      [] expression.tag = "Binary" ->
           LET lhs_type == check_expression(environment, expression.lhs)
               rhs_type == check_expression(environment, expression.rhs)
           IN  IF lhs_type.kind # "Ok" \/ rhs_type.kind # "Ok"
               THEN Panic
               ELSE IF expression.op \in {"Equal", "NotEqual"}
                    THEN IF lhs_type.value = rhs_type.value
                         THEN Ok("Logical")
                         ELSE Err(TypeCheckingError("Cannot perform equality on two different types"))
                    ELSE IF lhs_type.value = "Logical" /\ rhs_type.value = "Logical"
                         THEN Ok("Logical")
                         ELSE Err(TypeCheckingError("Cannot perform logical Logical operator for two non logical types"))
      [] expression.tag = "Unary" ->
           LET expr_type == check_expression(environment, expression.expr)
           IN  IF expr_type.kind # "Ok"
               THEN Panic
               ELSE IF expr_type.value # "Logical"
                    THEN Err(TypeCheckingError("Cannot perform logical negation on non-logical type"))
                    ELSE Ok("Logical")

\* TypeChecker::check_statement: an Assigment is Void, whatever its operands.
check_statement(environment, statement) == Ok("Void")

\* ------------------------------------------------------ Automaton::new
\* HashSet<Channel>::insert: a channel equal to one already held is dropped.
InsertChannel(channels, channel) ==
    IF ChannelsContain(channels, channel) THEN channels ELSE channels \cup {channel}

RECURSIVE declare_all_true(_, _)
\* An auto-declaring loop that inserts true.
declare_all_true(envir, missing) ==
    IF missing = <<>>
    THEN envir
    ELSE declare_all_true(insert(envir, Head(missing), Bool(TRUE)).environment,
                          Tail(missing))

RECURSIVE declare_all(_, _)
\* The auto-declaring loop of handle_edge_identifiers.
declare_all(envir, missing) ==
    IF missing = <<>>
    THEN envir
    ELSE declare_all(insert(envir, Head(missing), Bool(FALSE)).environment, Tail(missing))

\* The closure handle_edge_identifiers: the missing identifiers of a node, and
\* the working environment afterwards.
handle_edge_identifiers(declare_variables, envir, node) ==
    LET handled(missing) ==
            [missing |-> IF Len(missing) = 0 THEN None ELSE Some(missing),
             environment |-> IF declare_variables THEN declare_all(envir, missing) ELSE envir]
    IN  handled(missing_identifiers_in_node(envir, node))

\* One iteration of the loop over the edges: acc holds inputs, outputs,
\* actions and the working environment.
collect_edge(name, declare_variables, acc, edge) ==
    LET inputs == IF edge.action.dir = "In"
                  THEN InsertChannel(acc.inputs, edge.action) ELSE acc.inputs
        outputs == IF edge.action.dir = "Out"
                   THEN InsertChannel(acc.outputs, edge.action) ELSE acc.outputs
        actions == InsertChannel(acc.actions, edge.action)
        typed(guard, update, actual) ==
            IF guard.missing.kind = "Some" /\ ~declare_variables
            THEN Err([type |-> "MissingIdentifiersInEdgeGuard", automaton |-> name,
                      edge |-> edge, missing |-> guard.missing.value])
            ELSE IF update.missing.kind = "Some" /\ ~declare_variables
            THEN Err([type |-> "MissingIdentifiersInEdgeUpdate", automaton |-> name,
                      edge |-> edge, missing |-> update.missing.value])
            ELSE IF actual.kind # "Ok"
            THEN Panic
            ELSE IF actual.value # "Logical"
            THEN Err([type |-> "EdgeGuardIsNotLogical", automaton |-> name,
                      edge |-> edge, actual |-> actual.value])
            ELSE Ok([inputs |-> inputs, outputs |-> outputs, actions |-> actions,
                     environment |-> update.environment])
        updated(guard, update) ==
            typed(guard, update, check_expression(update.environment, edge.guard.node))
        guarded(guard) ==
            updated(guard,
                    IF edge.update.node.kind = "Some"
                    THEN handle_edge_identifiers(declare_variables, guard.environment,
                                                 edge.update.node.value)
                    ELSE [missing |-> None, environment |-> guard.environment])
    IN  guarded(handle_edge_identifiers(declare_variables, acc.environment, edge.guard.node))

RECURSIVE collect_edges(_, _, _, _)
\* The loop over the edges, in the order the edge set is iterated.
collect_edges(name, declare_variables, acc, edge_order) ==
    LET continue(step) ==
            IF step.kind # "Ok"
            THEN step
            ELSE collect_edges(name, declare_variables, step.value, Tail(edge_order))
    IN  IF edge_order = <<>>
        THEN Ok(acc)
        ELSE continue(collect_edge(name, declare_variables, acc, Head(edge_order)))

RECURSIVE check_locations(_, _, _, _)
\* The loop over locations_worklist (popped from the back): Ok(working
\* environment) or the first invariant's error.
check_locations(name, declare_variables, envir, locations_worklist) ==
    LET current == locations_worklist[Len(locations_worklist)]
        rest == SubSeq(locations_worklist, 1, Len(locations_worklist) - 1)
        continue(checked) ==
            IF checked.missing.kind = "Some" /\ ~declare_variables
            THEN Err([type |-> "MissingIdentifiersInLocationInvariant",
                      automaton |-> name, location |-> current,
                      missing |-> checked.missing.value])
            ELSE check_locations(name, declare_variables, checked.environment, rest)
    IN  IF locations_worklist = <<>>
        THEN Ok(envir)
        ELSE CASE current.variant \in {"Normal", "Initial"} ->
                    continue(handle_edge_identifiers(declare_variables, envir,
                                                     current.invariant.node))
               [] current.variant = "Conjunction" ->
                    check_locations(name, declare_variables, envir,
                                    rest \o current.locations)
               [] OTHER -> check_locations(name, declare_variables, envir, rest)

\* An is_false that holds of no evaluation.
is_false_never(evaluation) == FALSE

\* Evaluation::is_false
is_false(evaluation) == evaluation.kind = "EvalBool" /\ evaluation.value = FALSE

\* A partition check that finds nothing.
partition_violating_none(inputs, outputs) == {}

\* A partition check that compares channels by name and direction.
partition_violating_by_direction(inputs, outputs) == inputs \cap outputs

\* inputs.intersection(&outputs): the inputs that are also outputs, channels
\* compared by name.
partition_violating(inputs, outputs) ==
    {joint \in inputs : ChannelsContain(outputs, joint)}

\* An empty check that never fires.
empty_error_never(name, locations) == None

\* if locations.len() == 0: the EmptyAutomaton error, or None.
empty_error(name, locations) ==
    IF Cardinality(locations) = 0
    THEN Some([type |-> "EmptyAutomaton", automaton |-> name])
    ELSE None

\* The locations marked as initial.
initial_locations(locations) == {location \in locations : location.variant = "Initial"}

\* A count check that calls every count but one too many.
initials_error_not_one(name, initials) ==
    IF Cardinality(initials) # 1
    THEN Some([type |-> "TooManyInitialLocations", automaton |-> name,
               initials |-> initials])
    ELSE None

\* A count check that only looks for a missing initial location.
initials_error_missing_only(name, initials) ==
    IF Cardinality(initials) = 0
    THEN Some([type |-> "MissingInitialLocation", automaton |-> name])
    ELSE None

\* Zero or more than one initial locations: the error, or None.
initials_error(name, initials) ==
    IF Cardinality(initials) = 0
    THEN Some([type |-> "MissingInitialLocation", automaton |-> name])
    ELSE IF Cardinality(initials) > 1
    THEN Some([type |-> "TooManyInitialLocations", automaton |-> name,
               initials |-> initials])
    ELSE None

\* Lines 164-243 of Automaton::new: the checks made once the edges and the
\* locations have been walked.
finish_automaton(name, edges, locations, acc, initial_environment) ==
    LET initials == initial_locations(locations)
        unwrapped_initial == CHOOSE location \in initials : TRUE
        consistent(evaluation_result) ==
            IF evaluation_result.kind = "Panic"
            THEN Panic
            ELSE IF evaluation_result.kind = "Err" \/ is_false(evaluation_result.value)
            THEN Err([type |-> "InconsistentInitialLocation", automaton |-> name,
                      location |-> unwrapped_initial])
            ELSE Ok([name |-> name, locations |-> locations, edges |-> edges,
                     actions |-> acc.actions, inputs |-> acc.inputs,
                     outputs |-> acc.outputs, initial |-> unwrapped_initial,
                     initial_environment |-> initial_environment])
        counted(error) ==
            IF error.kind = "Some"
            THEN Err(error.value)
            ELSE consistent(eval_expression(initial_environment,
                                            unwrapped_initial.invariant.node))
        populated(error) ==
            IF error.kind = "Some"
            THEN Err(error.value)
            ELSE counted(initials_error(name, initials))
        partitioned(violating) ==
            IF violating # {}
            THEN Err([type |-> "PartitionError", automaton |-> name, violating |-> violating])
            ELSE populated(empty_error(name, locations))
    IN  partitioned(partition_violating(acc.inputs, acc.outputs))

\* Only the locations edges leave.
edge_locations_left(edges) == {edge.source : edge \in edges}

\* The locations the edges refer to.
edge_locations(edges) == {edge.source : edge \in edges} \cup {edge.target : edge \in edges}

\* Automaton::new(name, edges, environment): Ok(automaton), Err(error) or
\* Panic. edge_order and location_order are the orders in which the two hash
\* sets happen to be iterated; environment is None or Some(seed).
Automaton_new(name, edges, environment, edge_order, location_order) ==
    LET declare_variables == environment.kind = "None"
        initial_environment == IF declare_variables THEN new_empty ELSE environment.value
        finish(collected, checked) ==
            IF checked.kind # "Ok"
            THEN checked
            ELSE finish_automaton(name, edges, edge_locations(edges), collected.value,
                                  checked.value)
        locate(collected) ==
            IF collected.kind # "Ok"
            THEN collected
            ELSE finish(collected,
                        check_locations(name, declare_variables,
                                        collected.value.environment, location_order))
    IN  locate(collect_edges(name, declare_variables,
                             [inputs |-> {}, outputs |-> {}, actions |-> {},
                              environment |-> initial_environment], edge_order))

\* ---------------------------------------------------------------- getters
\* A getter that answers the empty environment.
get_initial_environment_empty(a) == new_empty

get_initial_environment(a) == a.initial_environment
get_initial_location(a) == a.initial
get_locations(a) == a.locations
get_edges(a) == a.edges
get_inputs(a) == a.inputs
get_outputs(a) == a.outputs

\* ------------------------------------------------------------ conjunction
\* HashSet<Channel>::extend: a channel equal to one already present is not
\* added.
extend_channels(channels, more) ==
    channels \cup {channel \in more : ~ChannelsContain(channels, channel)}

RECURSIVE Conjunction_collect(_, _)
\* The loop over the operands in Conjunction::new: the unions of their inputs
\* and outputs and the set of their initial locations; then the actions.
Conjunction_collect(automata, acc) ==
    IF automata = <<>>
    THEN [inputs |-> acc.inputs, outputs |-> acc.outputs,
          initial_locations |-> acc.initial_locations,
          actions |-> extend_channels(acc.inputs, acc.outputs)]
    ELSE Conjunction_collect(Tail(automata),
            [inputs |-> extend_channels(acc.inputs, get_inputs(Head(automata))),
             outputs |-> extend_channels(acc.outputs, get_outputs(Head(automata))),
             initial_locations |->
                 acc.initial_locations \cup {get_initial_location(Head(automata))}])

\* Conjunction::new: the operand-count check and the partition loop have empty
\* bodies, nothing is returned before the end, and the end is todo!().
Conjunction_new(automata) == Panic

\* ------------------------------------------------- interpreter as an object
Interpreter_new(environment) == [environment |-> environment]

\* An evaluation that leaves the interpreter with an empty environment.
Interpreter_eval_expression_clearing(interpreter, expression) ==
    [result |-> eval_expression(interpreter.environment, expression),
     interpreter |-> [environment |-> new_empty]]

\* interpreter.eval_expression(&expression) on a mutable interpreter: the
\* result, and the interpreter afterwards (no statement of eval_expression
\* assigns to self.environment).
Interpreter_eval_expression(interpreter, expression) ==
    [result |-> eval_expression(interpreter.environment, expression),
     interpreter |-> interpreter]

Interpreter_get_environment(interpreter) == interpreter.environment

\* ----------------------------------------------------- structural queries
\* An ingoing_edges that compares the location with the edge's source.
ingoing_edges_by_source(order, location, actions) ==
    SelectSeq(order, LAMBDA edge : edge.source = location
                                      /\ ChannelsContain(actions, edge.action))

\* Automaton::ingoing_edges, in the order the edge set is iterated.
ingoing_edges(order, location, actions) ==
    SelectSeq(order, LAMBDA edge : edge.target = location
                                      /\ ChannelsContain(actions, edge.action))

RECURSIVE edge_sources(_)
edge_sources(edges) ==
    IF edges = <<>> THEN <<>> ELSE <<Head(edges).source>> \o edge_sources(Tail(edges))

\* Automaton::precedeeing_locations
precedeeing_locations(order, location, actions) ==
    edge_sources(ingoing_edges(order, location, actions))

\* An outgoing_edges that keeps the edges of every action.
outgoing_edges_of_any_action(order, location, actions) ==
    SelectSeq(order, LAMBDA edge : edge.source = location)

\* Automaton::outgoing_edges, in the order the edge set is iterated.
outgoing_edges(order, location, actions) ==
    SelectSeq(order, LAMBDA edge : edge.source = location
                                      /\ ChannelsContain(actions, edge.action))

RECURSIVE edge_targets(_)
edge_targets(edges) ==
    IF edges = <<>> THEN <<>> ELSE <<Head(edges).target>> \o edge_targets(Tail(edges))

\* Automaton::sucedeeing_locations
sucedeeing_locations(order, location, actions) ==
    edge_targets(outgoing_edges(order, location, actions))

\* ----------------------------------------------------- transition system
\* TransitionSystem::get_initial_state
get_initial_state(automaton) == State(automaton.initial, automaton.initial_environment)

RECURSIVE successors_loop(_, _, _)
\* The loop of successors over the outgoing edges: Ok(states) or Panic.
successors_loop(outgoing, state, result) ==
    LET fire(executed) ==
            IF executed.kind = "Panic"
            THEN Panic
            ELSE successors_loop(Tail(outgoing), state, Append(result, executed.value))
        filter(enabled) ==
            IF enabled.kind = "Panic"
            THEN Panic
            ELSE IF ~enabled.value
            THEN successors_loop(Tail(outgoing), state, result)
            ELSE fire(Edge_execute(Head(outgoing), state).result)
    IN  IF outgoing = <<>>
        THEN Ok(result)
        ELSE filter(Edge_enabled(Head(outgoing), state))

\* TransitionSystem::successors for Automaton; order is the order in which the
\* automaton's edge set is iterated.
successors(order, state, actions) ==
    successors_loop(outgoing_edges(order, state.location, actions), state, <<>>)

\* Vec::contains / VecDeque::contains
SeqContains(seq, x) == \E i \in 1..Len(seq) : seq[i] = x

\* TransitionSystemBreadthFirstSearch::new
search_new(actions, transition_system) ==
    [transition_system |-> transition_system, actions |-> actions,
     visited |-> <<>>, frontier |-> <<>>]

RECURSIVE push_unseen(_, _, _)
\* The for loop of next(): a successor that is neither visited nor in the
\* frontier is pushed to the back of the frontier.
push_unseen(visited, frontier, nexts) ==
    IF nexts = <<>>
    THEN frontier
    ELSE push_unseen(visited,
                     IF ~SeqContains(visited, Head(nexts)) /\ ~SeqContains(frontier, Head(nexts))
                     THEN Append(frontier, Head(nexts))
                     ELSE frontier,
                     Tail(nexts))

\* The first step of next(): the frontier, seeded with the initial state when
\* nothing is visited and nothing is in the frontier.
search_started(search) ==
    IF search.visited = <<>> /\ search.frontier = <<>>
    THEN <<get_initial_state(search.transition_system)>>
    ELSE search.frontier

\* The value next() returns once it has expanded `state`.
next_item(state) == None

\* TransitionSystemBreadthFirstSearch::next: the item returned (None, Some(state)
\* or Panic) and the enumerator afterwards.
search_next(search, order) ==
    LET expand(state, popped, nexts) ==
            IF nexts.kind = "Panic"
            THEN [item |-> Panic, search |-> [search EXCEPT !.frontier = popped]]
            ELSE [item |-> next_item(state),
                  search |-> [search EXCEPT
                                !.frontier = push_unseen(search.visited, popped, nexts.value)]]
        pop(started) ==
            IF started = <<>>
            THEN [item |-> None, search |-> search]
            ELSE expand(started[Len(started)],
                        SubSeq(started, 1, Len(started) - 1),
                        successors(order, started[Len(started)], search.actions))
    IN  pop(search_started(search))

RECURSIVE search_collect(_, _)
\* `for current in search`: the items taken until next() returns None.
search_collect(search, order) ==
    LET prepend(current, more) ==
            IF more.kind = "Panic" THEN Panic ELSE Ok(<<current>> \o more.value)
        take(step) ==
            CASE step.item.kind = "Panic" -> Panic
              [] step.item.kind = "None" -> Ok(<<>>)
              [] OTHER -> prepend(step.item.value, search_collect(step.search, order))
    IN  take(search_next(search, order))

RECURSIVE enables_any(_, _)
\* State::enables_any: Ok(bool) or Panic.
enables_any(state, edges) ==
    LET any(enables) ==
            IF enables.kind = "Panic"
            THEN Panic
            ELSE IF enables.value THEN Ok(TRUE) ELSE enables_any(state, Tail(edges))
    IN  IF edges = <<>>
        THEN Ok(FALSE)
        ELSE any(State_enables(state, Head(edges)))

RECURSIVE keep_enabling(_, _, _)
\* The second loop of predecessors: the states that enable an ingoing edge.
keep_enabling(states, preceding_edges, result) ==
    LET keep(enables) ==
            IF enables.kind = "Panic"
            THEN Panic
            ELSE keep_enabling(Tail(states), preceding_edges,
                               IF enables.value THEN Append(result, Head(states))
                               ELSE result)
    IN  IF states = <<>>
        THEN Ok(result)
        ELSE keep(enables_any(Head(states), preceding_edges))

\* TransitionSystem::predecessors for Automaton: Ok(states) or Panic.
predecessors(transition_system, order, state, actions) ==
    LET precedeeing == precedeeing_locations(order, state.location, actions)
        preceding_edges == ingoing_edges(order, state.location, actions)
        filter(reached) ==
            IF reached.kind = "Panic"
            THEN Panic
            ELSE keep_enabling(
                     SelectSeq(reached.value,
                               LAMBDA current : SeqContains(precedeeing, current.location)),
                     preceding_edges, <<>>)
    IN  filter(search_collect(search_new(actions, transition_system), order))

\* ------------------------------------------------------------ input pools
TrueInvariant == Invariant(new_boolean(TRUE))
TrueGuard == Guard(new_boolean(TRUE))
LocA == new_initial("a", TrueInvariant)
LocB == new_normal("b", TrueInvariant)
LocC == new_normal("c", TrueInvariant)

Negation(e) == Unary("Negation", e)

\* The edges automata are built from.
EdgePool ==
    { Edge(LocA, In("x"), TrueGuard, new_pure, LocB),
      Edge(LocB, In("x"), TrueGuard, new_pure, LocC),
      Edge(LocB, Out("x"), TrueGuard, new_pure, LocC),
      Edge(LocA, In("x"), TrueGuard,
           Update(new_simple_assignment("p", Bool(FALSE))), LocB),
      Edge(LocA, Out("y"), TrueGuard,
           Update(new_simple_assignment("p", Bool(TRUE))), LocB),
      Edge(LocA, Out("y"), TrueGuard,
           Update(new_simple_assignment("p", Bool(TRUE))), LocA),
      Edge(LocA, In("x"), Guard(new_identifier("p")), new_pure, LocC),
      Edge(LocA, Out("y"), Guard(Negation(new_identifier("p"))), new_pure, LocC),
      Edge(LocB, Out("y"), Guard(new_boolean(FALSE)), new_pure, LocC) }

\* A HashSet<Edge> holds no two equal edges.
IsEdgeSet(S) == \A l, r \in S : EdgeEq(l, r) => l = r

EdgeSets == {S \in SUBSET EdgePool : Cardinality(S) <= MaxEdges /\ IsEdgeSet(S)}

\* The seed environments handed to Automaton::new.
SeedPool ==
    { None,
      Some([p |-> Bool(FALSE)]),
      Some([p |-> Identifier("q"), q |-> Bool(TRUE)]) }

\* The action subsets searched and queried.
ActionSets == SUBSET {In("x"), Out("y")}

\* The orders in which a hash set may be iterated.
Orders(S) ==
    {order \in [1..Cardinality(S) -> S] :
        \A i, j \in 1..Cardinality(S) : i # j => order[i] # order[j]}

\* ------------------------------------------------------------------ state
VARIABLES
    edges,          \* the edge set handed to Automaton::new
    environment,    \* the seed environment handed to Automaton::new (an Option)
    built,          \* None, or Some(what Automaton::new returned)
    search,         \* None, or Some(the search enumerator)
    returned,       \* what the calls of next() returned, in order
    expanded,       \* the states those calls popped from the frontier, in order
    op              \* the last query made of the automaton, with its result

vars == <<edges, environment, built, search, returned, expanded, op>>

NoOp == [name |-> "none"]

Init ==
    /\ edges \in EdgeSets
    /\ environment \in SeedPool
    /\ built = None
    /\ search = None
    /\ returned = <<>>
    /\ expanded = <<>>
    /\ op = NoOp

\* let automaton = Automaton::new("A", &edges, environment)
New ==
    /\ built = None
    /\ \E edge_order \in Orders(edges), location_order \in Orders(edge_locations(edges)) :
          built' = Some(Automaton_new("A", edges, environment, edge_order, location_order))
    /\ UNCHANGED <<edges, environment, search, returned, expanded, op>>

\* The automaton Automaton::new returned.
HasAutomaton == built.kind = "Some" /\ built.value.kind = "Ok"
automaton == built.value.value

\* let search = TransitionSystemBreadthFirstSearch::new(&actions, automaton.clone())
SearchNew ==
    /\ HasAutomaton
    /\ search = None
    /\ \E actions \in ActionSets : search' = Some(search_new(actions, automaton))
    /\ UNCHANGED <<edges, environment, built, returned, expanded, op>>

\* search.next()
SearchNext ==
    /\ search.kind = "Some"
    /\ Len(returned) < MaxCalls
    /\ \A i \in 1..Len(returned) : returned[i].kind # "Panic"
    /\ \E order \in Orders(automaton.edges) :
          \E step \in {search_next(search.value, order)} :
              /\ search' = Some(step.search)
              /\ returned' = Append(returned, step.item)
              /\ expanded' = IF search_started(search.value) = <<>>
                              THEN expanded
                              ELSE Append(expanded, search_started(search.value)[
                                                        Len(search_started(search.value))])
    /\ UNCHANGED <<edges, environment, built, op>>

Next == New \/ SearchNew \/ SearchNext

Spec == Init /\ [][Next]_vars

\* --------------------------------------------- reference: reachable states
\* The states one enabled edge with its action in `actions` leads to.
StepsFrom(a, actions, state) ==
    {Edge_execute(edge, state).result.value :
        edge \in {e \in a.edges : /\ e.source = state.location
                                   /\ ChannelsContain(actions, e.action)
                                   /\ Edge_enabled(e, state) = Ok(TRUE)
                                   /\ Edge_execute(e, state).result.kind = "Ok"}}

RECURSIVE ReachClosure(_, _, _)
ReachClosure(a, actions, states) ==
    LET more == states \cup UNION {StepsFrom(a, actions, state) : state \in states}
    IN  IF more = states THEN states ELSE ReachClosure(a, actions, more)

\* The (location, environment) pairs reachable from the initial state.
Reachable(a, actions) == ReachClosure(a, actions, {get_initial_state(a)})

RECURSIVE DistanceFrom(_, _, _, _, _)
\* The number of edge firings on a shortest path to `state` (a reachable state).
DistanceFrom(a, actions, states, state, n) ==
    IF state \in states
    THEN n
    ELSE DistanceFrom(a, actions,
                      states \cup UNION {StepsFrom(a, actions, s) : s \in states},
                      state, n + 1)

Distance(a, actions, state) == DistanceFrom(a, actions, {get_initial_state(a)}, state, 0)

\* A caller iterating the enumerator stops at the first None.
Exhausted == \E i \in 1..Len(returned) : returned[i].kind = "None"

RECURSIVE YieldedUntilNone(_)
YieldedUntilNone(items) ==
    IF items = <<>> \/ Head(items).kind # "Some"
    THEN <<>>
    ELSE <<Head(items).value>> \o YieldedUntilNone(Tail(items))

\* The sequence `for state in search` hands to its body.
Yielded == YieldedUntilNone(returned)

\* ------------------------------------------------------------------ claims
\* C1: iterating the search enumerator yields every state reachable under the
\* action subset, each exactly once, before it signals exhaustion; the length
\* of the yielded sequence is the number of reachable (location, environment)
\* pairs.
C1_YieldsEveryReachableStateOnce ==
    (search.kind = "Some" /\ Exhausted) =>
        LET reachable == Reachable(automaton, search.value.actions)
        IN  /\ {Yielded[i] : i \in 1..Len(Yielded)} = reachable
            /\ Len(Yielded) = Cardinality(reachable)

\* C2: a call of next() returns one newly discovered state or None; it does
\* not return None while the frontier holds a state, and the first call on a
\* fresh enumerator returns the initial state.
C2_NextYieldsOrExhausts ==
    (search.kind = "Some" /\ Len(returned) > 0) =>
        /\ returned[1] = Some(get_initial_state(automaton))
        /\ (returned[Len(returned)].kind = "None" => search.value.frontier = <<>>)
        /\ \A i, j \in 1..Len(returned) :
              (i < j /\ returned[i].kind = "Some") => returned[i] # returned[j]

\* C5: the first state yielded is the initial state, and the states are
\* yielded in non-decreasing distance from the initial state.
C5_BreadthFirstOrder ==
    (search.kind = "Some" /\ Exhausted) =>
        /\ Yielded # <<>>
        /\ Yielded[1] = get_initial_state(automaton)
        /\ \A i, j \in 1..Len(Yielded) :
              i < j => Distance(automaton, search.value.actions, Yielded[i])
                         <= Distance(automaton, search.value.actions, Yielded[j])

\* C10: for every automaton Automaton::new returns, no channel name is the
\* action of an input edge and of an output edge, and the inputs and outputs it
\* reports (the names of its input edges, the names of its output edges) share
\* no name.
C10_InputsOutputsDisjoint ==
    HasAutomaton =>
        /\ \A l, r \in automaton.edges :
              (l.action.dir = "In" /\ r.action.dir = "Out") => l.action.name # r.action.name
        /\ \A i \in automaton.inputs, o \in automaton.outputs : i.name # o.name
        /\ {i.name : i \in automaton.inputs}
              = {e.action.name : e \in {e \in automaton.edges : e.action.dir = "In"}}
        /\ {o.name : o \in automaton.outputs}
              = {e.action.name : e \in {e \in automaton.edges : e.action.dir = "Out"}}

\* C10 witness: an automaton was built from input edges and output edges.
C10_Witness ==
    /\ HasAutomaton
    /\ automaton.inputs # {}
    /\ automaton.outputs # {}

\* ------------------------------------ queries of a built automaton
\* The environments a queried state carries besides the initial one.
QueryEnvironments == {[p |-> Bool(TRUE)]}

QueryStates ==
    {State(location, env) :
        location \in automaton.locations,
        env \in {automaton.initial_environment} \cup QueryEnvironments}

\* automaton.successors(&state, &actions); a run makes one query.
SuccessorsCall ==
    /\ HasAutomaton
    /\ op = NoOp
    /\ \E state \in QueryStates, actions \in ActionSets, order \in Orders(automaton.edges) :
          op' = [name |-> "successors", state |-> state, actions |-> actions,
                 result |-> successors(order, state, actions)]
    /\ UNCHANGED <<edges, environment, built, search, returned, expanded>>

\* automaton.predecessors(&state, &actions)
PredecessorsCall ==
    /\ HasAutomaton
    /\ op = NoOp
    /\ \E state \in QueryStates, actions \in ActionSets, order \in Orders(automaton.edges) :
          op' = [name |-> "predecessors", state |-> state, actions |-> actions,
                 result |-> predecessors(automaton, order, state, actions)]
    /\ UNCHANGED <<edges, environment, built, search, returned, expanded>>

NextQuery == New \/ SuccessorsCall \/ PredecessorsCall

SpecQuery == Init /\ [][NextQuery]_vars

\* The edges the claim about successors speaks of: out of the state's
\* location, action in the subset, enabled in the state.
FiringEdges(state, actions) ==
    {edge \in automaton.edges : /\ edge.source = state.location
                                /\ ChannelsContain(actions, edge.action)
                                /\ Edge_enabled(edge, state) = Ok(TRUE)}

\* The edges out of the state's location with their action in the subset.
CandidateEdges(state, actions) ==
    {edge \in automaton.edges : /\ edge.source = state.location
                                /\ ChannelsContain(actions, edge.action)}

\* How often x occurs in a sequence.
Occurrences(seq, x) == Cardinality({i \in 1..Len(seq) : seq[i] = x})

C4_PredecessorsExact ==
    op.name = "predecessors" =>
        LET ingoing == {edge \in automaton.edges :
                           /\ edge.target = op.state.location
                           /\ ChannelsContain(op.actions, edge.action)}
            expected == {state \in Reachable(automaton, op.actions) :
                            \E edge \in ingoing : /\ edge.source = state.location
                                                  /\ Edge_enabled(edge, state) = Ok(TRUE)}
        IN  op.result.kind = "Ok" =>
                {op.result.value[i] : i \in 1..Len(op.result.value)} = expected

\* ------------------------------------------- edges applied to states
ProbeLiterals ==
    {new_boolean(TRUE), new_boolean(FALSE), new_identifier("p"), new_identifier("z")}

BinaryOperators ==
    {"LogicalAnd", "LogicalOr", "Equal", "NotEqual", "Implication", "BiImplication"}

\* The guards probed: every expression of one operator over the literals, and
\* a few deeper ones.
GuardPool ==
    {Guard(e) : e \in
        ProbeLiterals
        \cup {Parenthesized(l) : l \in ProbeLiterals}
        \cup {Negation(l) : l \in ProbeLiterals}
        \cup {Binary(l, o, r) : l \in ProbeLiterals, o \in BinaryOperators, r \in ProbeLiterals}
        \cup { Parenthesized(Parenthesized(new_identifier("z"))),
               Binary(new_boolean(TRUE), "LogicalOr",
                      Parenthesized(Negation(new_identifier("z")))),
               Negation(Negation(new_identifier("p"))) }}

\* The updates probed: none, assignments to declared and undeclared
\* identifiers, a left side that is no identifier, right sides that fail.
UpdatePool ==
    { new_pure,
      Update(new_simple_assignment("p", Bool(TRUE))),
      Update(new_simple_assignment("p", Bool(FALSE))),
      Update(new_simple_assignment("z", Bool(TRUE))),
      Update(new_simple_assignment("p", Identifier("z"))),
      Update(Assigment(new_boolean(TRUE), new_boolean(FALSE))),
      Update(Assigment(Parenthesized(new_identifier("p")),
                       Negation(new_identifier("p")))),
      Update(Assigment(new_identifier("p"),
                       Binary(new_identifier("z"), "LogicalAnd", new_boolean(TRUE)))) }

\* A location named like LocB with another invariant.
LocBGuarded == new_normal("b", Invariant(new_identifier("p")))

ProbeEdges ==
    {Edge(source, In("x"), guard, new_pure, target) :
        source \in {LocA, LocB}, guard \in GuardPool, target \in {LocA, LocB}}
    \cup
    {Edge(source, In("x"), TrueGuard, update, target) :
        source \in {LocA, LocB}, update \in UpdatePool, target \in {LocA, LocB}}

ProbeEnvironments ==
    { new_empty,
      [p |-> Bool(TRUE)],
      [p |-> Bool(FALSE)],
      [p |-> Bool(FALSE), z |-> Bool(TRUE)],
      [p |-> Identifier("q"), q |-> Bool(TRUE)] }

ProbeStates ==
    {State(location, env) :
        location \in {LocA, LocB, LocBGuarded}, env \in ProbeEnvironments}

InitEdge ==
    /\ edges = {}
    /\ environment = None
    /\ built = None
    /\ search = None
    /\ returned = <<>>
    /\ expanded = <<>>
    /\ op = NoOp

\* edge.enabled(&state)
EnabledCall ==
    /\ op = NoOp
    /\ \E edge \in ProbeEdges, state \in ProbeStates :
          op' = [name |-> "enabled", edge |-> edge, state |-> state,
                 result |-> Edge_enabled(edge, state)]
    /\ UNCHANGED <<edges, environment, built, search, returned, expanded>>

\* state.enables(&edge)
EnablesCall ==
    /\ op = NoOp
    /\ \E edge \in ProbeEdges, state \in ProbeStates :
          op' = [name |-> "enables", edge |-> edge, state |-> state,
                 result |-> State_enables(state, edge)]
    /\ UNCHANGED <<edges, environment, built, search, returned, expanded>>

\* edge.execute(&state)
ExecuteCall ==
    /\ op = NoOp
    /\ \E edge \in ProbeEdges, state \in ProbeStates :
          \E executed \in {Edge_execute(edge, state)} :
              op' = [name |-> "execute", edge |-> edge, state |-> state,
                     result |-> executed.result, state_after |-> executed.state]
    /\ UNCHANGED <<edges, environment, built, search, returned, expanded>>

NextEdge == EnabledCall \/ EnablesCall \/ ExecuteCall

SpecEdge == InitEdge /\ [][NextEdge]_vars

\* C6: enabled is false whenever the edge's source is not the state's
\* location, whatever the guard (true, or one whose evaluation would fail).
C6_EnabledFalseOffSource ==
    (op.name \in {"enabled", "enables"} /\ op.edge.source # op.state.location) =>
        op.result = Ok(FALSE)

\* C6 witness: enabled was asked of an edge away from the state's location
\* whose guard cannot be evaluated in the state's environment.
C6_Witness ==
    /\ op.name = "enabled"
    /\ op.edge.source # op.state.location
    /\ eval_expression(op.state.environment, op.edge.guard.node).kind = "Panic"

\* C7: at the edge's source, enabled returns true iff the guard evaluates to
\* true in the state's environment; when the evaluation fails, at any depth of
\* the guard, it returns false and does not abort.
C7_EnabledIffGuardTrue ==
    (op.name \in {"enabled", "enables"} /\ op.edge.source = op.state.location) =>
        /\ op.result.kind = "Ok"
        /\ op.result.value
              = (eval_expression(op.state.environment, op.edge.guard.node)
                   = Ok(EvalBool(TRUE)))

\* C8: execute leads to the edge's target; with no update the environment is
\* the state's environment; the state passed in is left as it was.
C8_ExecuteFrame ==
    op.name = "execute" =>
        /\ op.state_after = op.state
        /\ op.result.kind = "Ok" => op.result.value.location = op.edge.target
        /\ op.edge.update.node = None =>
              op.result = Ok(State(op.edge.target, op.state.environment))

\* C8 witness: an edge without update was executed from another location
\* than its target in an environment that declares something.
C8_Witness ==
    /\ op.name = "execute"
    /\ op.edge.update.node = None
    /\ op.edge.target # op.state.location
    /\ DOMAIN op.state.environment # {}
    /\ op.result.kind = "Ok"

\* C9: when the update fails to evaluate, execute does not return a state:
\* the failure ends the call with the abort "Edge update execution failed".
C9_FailedUpdateSurfaces ==
    ( /\ op.name = "execute"
      /\ op.edge.update.node.kind = "Some"
      /\ eval_statement(op.state.environment, op.edge.update.node.value).result # None )
    => op.result = Panic

\* C9 witness: an update assigning to an identifier the state's environment
\* does not declare was executed.
C9_Witness ==
    /\ op.name = "execute"
    /\ op.edge.update = Update(new_simple_assignment("z", Bool(TRUE)))
    /\ ~contains(op.state.environment, "z")
    /\ op.result = Panic

\* --------------------------------------- the constructor's validation
\* Largest edge set handed to Automaton::new when its validation is probed.
MaxNewEdges == 2

LocI == new_initial("i", TrueInvariant)
LocAFalse == new_initial("a", Invariant(new_boolean(FALSE)))
LocAP == new_initial("a", Invariant(new_identifier("p")))
LocANotP == new_initial("a", Invariant(Negation(new_identifier("p"))))

\* Edges that break one rule of the constructor each, or several at once.
NewEdgePool ==
    { Edge(LocA, In("x"), TrueGuard, new_pure, LocB),
      Edge(LocB, Out("x"), TrueGuard, new_pure, LocB),
      Edge(LocB, In("x"), TrueGuard, new_pure, LocBGuarded),
      Edge(LocB, Out("y"), TrueGuard, new_pure, LocBGuarded),
      Edge(LocA, Out("y"), TrueGuard, new_pure, LocI),
      Edge(LocAFalse, In("x"), TrueGuard, new_pure, LocB),
      Edge(LocAP, In("x"), TrueGuard, new_pure, LocB),
      Edge(LocANotP, In("x"), TrueGuard, new_pure, LocB),
      Edge(LocA, In("x"), Guard(new_identifier("z")), new_pure, LocB),
      Edge(LocA, Out("y"), TrueGuard,
           Update(new_simple_assignment("z", Bool(TRUE))), LocB),
      Edge(LocA, Out("y"), Guard(new_identifier("p")),
           Update(new_simple_assignment("z", Identifier("p"))), LocB),
      Edge(LocB, In("x"),
           Guard(Binary(new_identifier("p"), "LogicalAnd", new_identifier("z"))),
           new_pure, LocA) }

NewEdgeSets == {S \in SUBSET NewEdgePool : Cardinality(S) <= MaxNewEdges /\ IsEdgeSet(S)}

\* No seed, seeds declaring p, a seed aliasing p to q, and a seed aliasing p
\* to an identifier it does not declare.
NewSeedPool ==
    { None,
      Some([p |-> Bool(TRUE)]),
      Some([p |-> Bool(FALSE)]),
      Some([p |-> Identifier("q"), q |-> Bool(TRUE)]),
      Some([p |-> Identifier("z")]) }

InitNew ==
    /\ edges \in NewEdgeSets
    /\ environment \in NewSeedPool
    /\ built = None
    /\ search = None
    /\ returned = <<>>
    /\ expanded = <<>>
    /\ op = NoOp

\* The getters of the automaton that was built.
Getters ==
    /\ HasAutomaton
    /\ op = NoOp
    /\ op' = [name |-> "getters",
              locations |-> get_locations(automaton),
              edges |-> get_edges(automaton),
              initial_location |-> get_initial_location(automaton),
              initial_environment |-> get_initial_environment(automaton),
              initial_state |-> get_initial_state(automaton)]
    /\ UNCHANGED <<edges, environment, built, search, returned, expanded>>

NextNew == New \/ Getters

SpecNew == InitNew /\ [][NextNew]_vars

\* ---------------------------------- reference: what the input looks like
RECURSIVE Identifiers(_)
\* The identifiers an expression refers to.
Identifiers(expression) ==
    CASE expression.tag = "Literal" ->
           IF expression.value.kind = "Identifier" THEN {expression.value.name} ELSE {}
      [] expression.tag = "Parenthesized" -> Identifiers(expression.expr)
      [] expression.tag = "Binary" -> Identifiers(expression.lhs) \cup Identifiers(expression.rhs)
      [] expression.tag = "Unary" -> Identifiers(expression.expr)

GuardIdentifiers(edge) == Identifiers(edge.guard.node)

UpdateIdentifiers(edge) ==
    IF edge.update.node.kind = "Some"
    THEN Identifiers(edge.update.node.value.identifier)
            \cup Identifiers(edge.update.node.value.value)
    ELSE {}

InvariantIdentifiers(location) == Identifiers(location.invariant.node)

\* The sources and targets of the edges handed in.
Endpoints == {edge.source : edge \in edges} \cup {edge.target : edge \in edges}

\* Every identifier a guard, an update or an invariant of the input refers to.
Referenced ==
    UNION ({GuardIdentifiers(edge) \cup UpdateIdentifiers(edge) : edge \in edges}
           \cup {InvariantIdentifiers(location) : location \in Endpoints})

Strict == environment.kind = "Some"

\* The environment the validation ends with: the seed, or every referenced
\* identifier declared false.
FinalEnvironment ==
    IF Strict THEN environment.value ELSE [i \in Referenced |-> Bool(FALSE)]

Undeclared(identifiers) == identifiers \ DOMAIN FinalEnvironment

\* The channel names used by an input edge and by an output edge.
SharedNames ==
    {l.action.name : l \in {e \in edges : e.action.dir = "In"}}
        \cap {r.action.name : r \in {e \in edges : e.action.dir = "Out"}}

\* Every guard whose identifiers are declared types to Logical.
GuardsWellTyped ==
    \A edge \in edges :
        Undeclared(GuardIdentifiers(edge)) = {}
            => check_expression(FinalEnvironment, edge.guard.node) = Ok("Logical")

IdentifiersDeclared == Undeclared(Referenced) = {}

Initials == {location \in Endpoints : location.variant = "Initial"}

\* What Automaton::new returned, and its kind: Ok, Panic or the error's type.
Built == built.kind = "Some"
result == built.value
Outcome == IF result.kind = "Err" THEN result.error.type ELSE result.kind

Range(seq) == {seq[i] : i \in 1..Len(seq)}

C12_LocationsAreEndpoints ==
    op.name = "getters" =>
        /\ op.locations = Endpoints
        /\ op.edges = edges
        /\ \A edge \in op.edges : edge.source \in op.locations /\ edge.target \in op.locations
        /\ \A location \in op.locations :
              \E edge \in op.edges : location \in {edge.source, edge.target}

\* C12 witness: an automaton was built in which some location is only ever a
\* target and two locations share the name b.
C12_Witness ==
    /\ op.name = "getters"
    /\ \E location \in op.locations : \A edge \in op.edges : edge.source # location
    /\ {LocB, LocBGuarded} \subseteq op.locations

\* C13: a built automaton has exactly one Initial location, which is its
\* initial location; that location's invariant evaluates to true in the
\* initial environment; the initial state is that location with the initial
\* environment.
C13_OneConsistentInitial ==
    op.name = "getters" =>
        /\ Cardinality({location \in op.locations : location.variant = "Initial"}) = 1
        /\ op.initial_location \in op.locations
        /\ op.initial_location.variant = "Initial"
        /\ eval_expression(op.initial_environment, op.initial_location.invariant.node)
              = Ok(EvalBool(TRUE))
        /\ op.initial_state = State(op.initial_location, op.initial_environment)

\* C13 witness: an automaton was built whose initial invariant reads an
\* identifier of the seed environment.
C13_Witness ==
    /\ op.name = "getters"
    /\ Strict
    /\ op.initial_location = LocAP

\* C14: an empty edge set is refused with EmptyAutomaton, with a seed
\* environment and without.
C14_EmptyAutomaton ==
    (Built /\ edges = {}) =>
        result = Err([type |-> "EmptyAutomaton", automaton |-> "A"])

\* C14 witness: an empty edge set was handed in with a seed environment.
C14_Witness ==
    /\ Built
    /\ edges = {}
    /\ Strict
    /\ Outcome = "EmptyAutomaton"

\* The input breaks none of the rules checked before the automaton is looked
\* at as a whole: identifiers declared, guards typed.
EdgesAndInvariantsValid == IdentifiersDeclared /\ GuardsWellTyped

\* C15: a non-empty, otherwise valid edge set none of whose endpoints is
\* Initial is refused with MissingInitialLocation.
C15_MissingInitialLocation ==
    (Built /\ edges # {} /\ Initials = {} /\ EdgesAndInvariantsValid /\ SharedNames = {}) =>
        result = Err([type |-> "MissingInitialLocation", automaton |-> "A"])

\* C15 witness: a non-empty edge set without Initial endpoint was refused.
C15_Witness ==
    /\ Built
    /\ edges # {}
    /\ Initials = {}
    /\ Outcome = "MissingInitialLocation"

\* C16: an otherwise valid edge set whose endpoints include two Initial
\* locations of different names is refused with TooManyInitialLocations, and
\* the error's initials are all the Initial endpoints.
C16_TooManyInitialLocations ==
    ( /\ Built
      /\ EdgesAndInvariantsValid
      /\ SharedNames = {}
      /\ \E l, r \in Initials : l.name # r.name )
    => /\ Outcome = "TooManyInitialLocations"
       /\ result.error.automaton = "A"
       /\ result.error.initials = Initials

\* C16 witness: an edge from one Initial location to another of a different
\* name was refused.
C16_Witness ==
    /\ Built
    /\ {LocA, LocI} \subseteq Initials
    /\ Outcome = "TooManyInitialLocations"

\* What evaluating the one Initial endpoint's invariant in the final
\* environment gives.
InitialInvariantEvaluation ==
    eval_expression(FinalEnvironment, (CHOOSE location \in Initials : TRUE).invariant.node)

\* C17: when the one Initial location's invariant evaluates to false in the
\* final environment, or its evaluation fails, Automaton::new returns
\* InconsistentInitialLocation for that location.
C17_InconsistentInitialLocation ==
    ( /\ Built
      /\ EdgesAndInvariantsValid
      /\ SharedNames = {}
      /\ Cardinality(Initials) = 1
      /\ InitialInvariantEvaluation # Ok(EvalBool(TRUE)) )
    => result = Err([type |-> "InconsistentInitialLocation", automaton |-> "A",
                     location |-> CHOOSE location \in Initials : TRUE])

MissingIdentifiersOutcomes ==
    {"MissingIdentifiersInEdgeGuard", "MissingIdentifiersInEdgeUpdate",
     "MissingIdentifiersInLocationInvariant"}

C19_AutoDeclaresReferenced ==
    (Built /\ ~Strict) =>
        /\ Outcome \notin MissingIdentifiersOutcomes
        /\ result.kind = "Ok" =>
              result.value.initial_environment = [i \in Referenced |-> Bool(FALSE)]

\* C19 witness: without a seed, an automaton was built from a guard referring
\* to two identifiers.
C19_Witness ==
    /\ HasAutomaton
    /\ ~Strict
    /\ DOMAIN automaton.initial_environment = {"p", "z"}

\* The first rule, in the documented order, that an edge breaks.
DocumentedEdgeOutcome(edge) ==
    IF Undeclared(GuardIdentifiers(edge)) # {}
    THEN "MissingIdentifiersInEdgeGuard"
    ELSE IF check_expression(FinalEnvironment, edge.guard.node) # Ok("Logical")
    THEN "EdgeGuardIsNotLogical"
    ELSE IF Undeclared(UpdateIdentifiers(edge)) # {}
    THEN "MissingIdentifiersInEdgeUpdate"
    ELSE "Ok"

RECURSIVE DocumentedEdgesOutcome(_)
DocumentedEdgesOutcome(order) ==
    IF order = <<>>
    THEN "Ok"
    ELSE IF DocumentedEdgeOutcome(Head(order)) # "Ok"
    THEN DocumentedEdgeOutcome(Head(order))
    ELSE DocumentedEdgesOutcome(Tail(order))

\* The outcome the documented validation order gives when the edges are
\* visited in `order`.
DocumentedOutcome(order) ==
    IF DocumentedEdgesOutcome(order) # "Ok"
    THEN DocumentedEdgesOutcome(order)
    ELSE IF \E location \in Endpoints : Undeclared(InvariantIdentifiers(location)) # {}
    THEN "MissingIdentifiersInLocationInvariant"
    ELSE IF SharedNames # {}
    THEN "PartitionError"
    ELSE IF edges = {}
    THEN "EmptyAutomaton"
    ELSE IF Initials = {}
    THEN "MissingInitialLocation"
    ELSE IF Cardinality(Initials) > 1
    THEN "TooManyInitialLocations"
    ELSE IF InitialInvariantEvaluation # Ok(EvalBool(TRUE))
    THEN "InconsistentInitialLocation"
    ELSE "Ok"

\* C20: the outcome of Automaton::new is that of the earliest broken rule in
\* the documented order, for some order of visiting the edges: per edge guard
\* identifiers, guard is Logical, update identifiers, update is Void; then
\* invariant identifiers, partition, emptiness, initial count, initial
\* consistency.
C20_DocumentedValidationOrder ==
    Built => Outcome \in {DocumentedOutcome(order) : order \in Orders(edges)}


\* ------------------------------------ values: equality, algebra, evaluation
\* The operations on values (channels, locations, edges, expressions,
\* environments) and Conjunction::new, each applied once to inputs drawn from
\* small pools.

\* Longest child sequence handed to Location::new_conjunction.
MaxChildren == 3

ChannelPool == {In("x"), Out("x"), In("y"), Out("y")}

\* The channel sets a HashSet<Channel> can hold: no two equal members.
ChannelSets ==
    {channels \in SUBSET ChannelPool :
        \A l, r \in channels : ChannelEq(l, r) => l = r}

ConjunctionAB ==
    [variant |-> "Conjunction", locations |-> <<LocA, LocBGuarded>>,
     invariant |-> Invariant(Binary(new_boolean(TRUE), "LogicalAnd", new_identifier("p")))]

ConjunctionBA ==
    [variant |-> "Conjunction", locations |-> <<LocBGuarded, LocA>>,
     invariant |-> Invariant(Binary(new_boolean(TRUE), "LogicalAnd", new_identifier("p")))]

\* The locations compared with each other.
LocationPool ==
    { LocA, LocB, LocBGuarded, new_normal("a", TrueInvariant),
      new_inconsistent("i"), new_inconsistent("u"),
      new_universal("u"), new_universal("v"),
      ConjunctionAB, ConjunctionBA }

\* The children Location::new_conjunction is given.
ChildPool ==
    { LocA, LocB, LocBGuarded, new_inconsistent("i"),
      new_universal("u"), new_universal("v"), ConjunctionAB }

ChildSequences == UNION {[1..n -> ChildPool] : n \in 0..MaxChildren}

\* The edges compared with each other.
CompareEdges ==
    {Edge(LocA, action, guard, new_pure, target) :
        action \in ChannelPool,
        guard \in {TrueGuard, Guard(new_identifier("p"))},
        target \in {LocB, LocBGuarded}}

\* The expressions evaluated: the probed guards, and every nesting of one
\* operator over three boolean literals.
EvalPool ==
    {guard.node : guard \in GuardPool}
    \cup UNION {{Binary(new_boolean(a), o, Binary(new_boolean(b), o, new_boolean(c))),
                 Binary(Binary(new_boolean(a), o, new_boolean(b)), o, new_boolean(c))} :
                    a \in BOOLEAN, b \in BOOLEAN, c \in BOOLEAN, o \in BinaryOperators}

ValuePool == {Bool(TRUE), Bool(FALSE), Identifier("q")}

\* The environments handed to concat.
OtherEnvironments ==
    ProbeEnvironments \cup {[z |-> Bool(TRUE)], [q |-> Bool(FALSE)], [p |-> Bool(TRUE), r |-> Bool(TRUE)]}

\* The edges the operands of Conjunction::new are built from, one each.
OperandEdges ==
    { Edge(LocA, In("x"), Guard(new_identifier("p")), new_pure, LocB),
      Edge(LocA, Out("x"), Guard(new_identifier("q")), new_pure, LocB),
      Edge(LocA, Out("y"), Guard(new_identifier("p")), new_pure, LocB),
      Edge(LocA, In("y"), TrueGuard, new_pure, LocB) }

\* The automata Automaton::new builds from one edge and no seed.
Operands(name, edge) ==
    {made.value : made \in
        {candidate \in {Automaton_new(name, {edge}, None, <<edge>>, order) :
                            order \in Orders(edge_locations({edge}))} :
            candidate.kind = "Ok"}}

\* left == right and the two hashes, for two channels.
ChannelCompare ==
    /\ op = NoOp
    /\ \E left \in ChannelPool, right \in ChannelPool :
          op' = [name |-> "channel_eq", left |-> left, right |-> right,
                 equal |-> ChannelEq(left, right),
                 hash_equal |-> ChannelHash(left) = ChannelHash(right)]
    /\ UNCHANGED <<edges, environment, built, search, returned, expanded>>

\* left.is_disjoint(&right) for two channel sets.
ChannelsDisjointCall ==
    /\ op = NoOp
    /\ \E left \in ChannelSets, right \in ChannelSets :
          op' = [name |-> "channels_is_disjoint", left |-> left, right |-> right,
                 result |-> ChannelsDisjoint(left, right)]
    /\ UNCHANGED <<edges, environment, built, search, returned, expanded>>

\* left == right and the two hashes, for two edges.
EdgeCompare ==
    /\ op = NoOp
    /\ \E left \in CompareEdges, right \in CompareEdges :
          op' = [name |-> "edge_eq", left |-> left, right |-> right,
                 equal |-> EdgeEq(left, right),
                 hash_equal |-> EdgeHash(left) = EdgeHash(right)]
    /\ UNCHANGED <<edges, environment, built, search, returned, expanded>>

\* left == right and the two hashes, for two locations.
LocationCompare ==
    /\ op = NoOp
    /\ \E left \in LocationPool, right \in LocationPool :
          op' = [name |-> "location_eq", left |-> left, right |-> right,
                 equal |-> LocationEq(left, right),
                 hash_equal |-> LocationHash(left) = LocationHash(right)]
    /\ UNCHANGED <<edges, environment, built, search, returned, expanded>>

\* Location::new_conjunction(&locations)
NewConjunctionCall ==
    /\ op = NoOp
    /\ \E locations \in ChildSequences :
          \E invariant_order \in Orders(collected_invariants(locations)) :
              op' = [name |-> "new_conjunction", locations |-> locations,
                     result |-> new_conjunction(locations, invariant_order)]
    /\ UNCHANGED <<edges, environment, built, search, returned, expanded>>

\* Conjunction::new(vec![&left, &right])
ConjunctionNewCall ==
    /\ op = NoOp
    /\ \E left_edge \in OperandEdges, right_edge \in OperandEdges :
          \E left \in Operands("L", left_edge), right \in Operands("R", right_edge) :
              op' = [name |-> "conjunction_new", automata |-> <<left, right>>,
                     result |-> Conjunction_new(<<left, right>>)]
    /\ UNCHANGED <<edges, environment, built, search, returned, expanded>>

\* Interpreter::new(&environment), then eval_expression(&expression) twice.
EvalCall ==
    /\ op = NoOp
    /\ \E env \in ProbeEnvironments, expression \in EvalPool :
          \E first \in {Interpreter_eval_expression(Interpreter_new(env), expression)} :
              \E second \in {Interpreter_eval_expression(first.interpreter, expression)} :
                  op' = [name |-> "eval", environment |-> env, expression |-> expression,
                         result |-> first.result,
                         environment_between |-> Interpreter_get_environment(first.interpreter),
                         again |-> second.result,
                         environment_after |-> Interpreter_get_environment(second.interpreter)]
    /\ UNCHANGED <<edges, environment, built, search, returned, expanded>>

\* environment.insert(identifier, &value)
InsertCall ==
    /\ op = NoOp
    /\ \E env \in ProbeEnvironments, identifier \in {"p", "q", "z"}, value \in ValuePool :
          \E inserted \in {insert(env, identifier, value)} :
              op' = [name |-> "insert", environment |-> env, identifier |-> identifier,
                     value |-> value, result |-> inserted.ok,
                     environment_after |-> inserted.environment]
    /\ UNCHANGED <<edges, environment, built, search, returned, expanded>>

\* environment.set(identifier, &value)
SetCall ==
    /\ op = NoOp
    /\ \E env \in ProbeEnvironments, identifier \in {"p", "q", "z"}, value \in ValuePool :
          \E assigned \in {set(env, identifier, value)} :
              op' = [name |-> "set", environment |-> env, identifier |-> identifier,
                     value |-> value, result |-> assigned.ok,
                     environment_after |-> assigned.environment]
    /\ UNCHANGED <<edges, environment, built, search, returned, expanded>>

\* environment.concat(&other)
ConcatCall ==
    /\ op = NoOp
    /\ \E env \in ProbeEnvironments, other \in OtherEnvironments :
          \E joined \in {concat(env, other)} :
              op' = [name |-> "concat", environment |-> env, other |-> other,
                     result |-> joined.ok, environment_after |-> joined.environment]
    /\ UNCHANGED <<edges, environment, built, search, returned, expanded>>

\* The statements evaluated and typed: the probed updates, and assignments
\* whose left side is no identifier or whose right side fails.
StatementPool ==
    {update.node.value : update \in UpdatePool \ {new_pure}}
    \cup { Assigment(Binary(new_identifier("p"), "LogicalAnd", new_identifier("p")),
                     new_boolean(TRUE)),
           Assigment(Negation(new_identifier("p")), new_boolean(TRUE)),
           Assigment(new_boolean(TRUE), new_identifier("z")),
           Assigment(new_boolean(FALSE), Negation(new_identifier("z"))),
           Assigment(new_identifier("z"), Negation(new_identifier("z"))),
           Assigment(new_identifier("z"), new_identifier("p")),
           Assigment(new_identifier("q"), new_identifier("p")),
           Assigment(new_identifier("p"), new_identifier("z")),
           Assigment(new_identifier("p"),
                     Binary(new_identifier("p"), "Implication", new_identifier("z"))),
           Assigment(Parenthesized(Parenthesized(new_identifier("z"))),
                     Binary(new_boolean(TRUE), "NotEqual", new_identifier("p"))) }

\* Interpreter::new(&environment), eval_statement(&statement), get_environment()
EvalStatementCall ==
    /\ op = NoOp
    /\ \E env \in ProbeEnvironments, statement \in StatementPool :
          \E evaluated \in {eval_statement(
                                Interpreter_get_environment(Interpreter_new(env)),
                                statement)} :
              op' = [name |-> "eval_statement", environment |-> env,
                     statement |-> statement, result |-> evaluated.result,
                     environment_after |-> evaluated.environment,
                     \* Interpreter::new borrows the environment and clones it
                     passed_after |-> env]
    /\ UNCHANGED <<edges, environment, built, search, returned, expanded>>

\* TypeChecker::new(&environment).check_expression(&expression)
CheckExpressionCall ==
    /\ op = NoOp
    /\ \E env \in ProbeEnvironments, expression \in EvalPool :
          op' = [name |-> "check_expression", environment |-> env,
                 expression |-> expression,
                 result |-> check_expression(env, expression)]
    /\ UNCHANGED <<edges, environment, built, search, returned, expanded>>

\* TypeChecker::new(&environment).check_statement(&statement)
CheckStatementCall ==
    /\ op = NoOp
    /\ \E env \in ProbeEnvironments, statement \in StatementPool :
          op' = [name |-> "check_statement", environment |-> env,
                 statement |-> statement,
                 result |-> check_statement(env, statement)]
    /\ UNCHANGED <<edges, environment, built, search, returned, expanded>>

NextValue ==
    \/ ChannelCompare \/ ChannelsDisjointCall \/ EdgeCompare \/ LocationCompare
    \/ NewConjunctionCall \/ ConjunctionNewCall
    \/ EvalCall \/ InsertCall \/ SetCall \/ ConcatCall
    \/ EvalStatementCall \/ CheckExpressionCall \/ CheckStatementCall

SpecValue == InitEdge /\ [][NextValue]_vars

\* C21: two channels are equal, and hash equally, exactly when their names are
\* equal, whatever their directions; so a channel set holding a name as input
\* and one holding it as output are not disjoint, and two edges that differ
\* only in the direction of their same-named action are equal and hash equally.
C21_ChannelsEqualByName ==
    /\ op.name = "channel_eq" =>
          /\ op.equal <=> (op.left.name = op.right.name)
          /\ op.hash_equal <=> (op.left.name = op.right.name)
    /\ op.name = "channels_is_disjoint" =>
          ((\E l \in op.left, r \in op.right : l.name = r.name) => ~op.result)
    /\ op.name = "edge_eq" =>
          ((/\ op.left.action.name = op.right.action.name
            /\ [op.left EXCEPT !.action = op.right.action] = op.right)
           => op.equal /\ op.hash_equal)

C21_Witness ==
    /\ op.name = "edge_eq"
    /\ op.left.action = In("x")
    /\ op.right = [op.left EXCEPT !.action = Out("x")]
    /\ op.equal
    /\ op.hash_equal

\* C22: two locations of one of the variants Normal, Initial, Inconsistent and
\* Universal are equal, and hash equally, exactly when their names are equal,
\* whatever their invariants; two Conjunction locations are equal, and hash
\* equally, exactly when their component sequences are equal; and equal
\* locations hash equally.
C22_LocationsEqualByName ==
    op.name = "location_eq" =>
        /\ (op.left.variant = op.right.variant /\ op.left.variant # "Conjunction") =>
              /\ op.equal <=> (op.left.name = op.right.name)
              /\ op.hash_equal <=> (op.left.name = op.right.name)
        /\ (op.left.variant = "Conjunction" /\ op.right.variant = "Conjunction") =>
              /\ op.equal <=> (op.left.locations = op.right.locations)
              /\ op.hash_equal <=> (op.left.locations = op.right.locations)
        /\ op.equal => op.hash_equal

\* The channel names that are an input of one operand and an output of another.
OffendingNames(automata) ==
    {input.name : input \in Conjunction_collect(automata,
                                [inputs |-> {}, outputs |-> {},
                                 initial_locations |-> {}]).inputs}
    \cap
    {output.name : output \in Conjunction_collect(automata,
                                [inputs |-> {}, outputs |-> {},
                                 initial_locations |-> {}]).outputs}

\* C23: Conjunction::new on automata where some channel name is an input of
\* one operand and an output of another fails with a PartitionError that
\* names the offending channels.
C23_ConjunctionPartitionError ==
    (op.name = "conjunction_new" /\ OffendingNames(op.automata) # {}) =>
        /\ op.result.kind = "Err"
        /\ op.result.error.type = "PartitionError"
        /\ {channel.name : channel \in op.result.error.violating}
               = OffendingNames(op.automata)

\* The variants of the children of a new_conjunction call.
ChildVariants == {op.locations[i].variant : i \in 1..Len(op.locations)}

\* C24: Location::new_conjunction returns an Inconsistent location when any
\* child is Inconsistent, whatever the other children are; otherwise, when
\* every child is Universal, it returns a Universal location.
C24_AbsorbingAlgebra ==
    op.name = "new_conjunction" =>
        /\ "Inconsistent" \in ChildVariants =>
              (op.result.kind = "Ok" /\ op.result.value.variant = "Inconsistent")
        /\ ("Inconsistent" \notin ChildVariants /\ ChildVariants \subseteq {"Universal"}) =>
              (op.result.kind = "Ok" /\ op.result.value.variant = "Universal")

\* C24 witness: an Inconsistent child among a Universal and a Normal one
\* collapsed the product to Inconsistent.
C24_Witness ==
    /\ op.name = "new_conjunction"
    /\ {"Inconsistent", "Universal", "Normal"} \subseteq ChildVariants
    /\ op.result = Ok(new_inconsistent("some conjoined name"))

\* The children a product retains: the Normal, Initial and Conjunction ones.
RetainedChildren ==
    SelectSeq(op.locations,
              LAMBDA child : child.variant \in {"Normal", "Initial", "Conjunction"})

\* An invariant is true in an environment.
InvariantHolds(env, invariant) ==
    eval_expression(env, invariant.node) = Ok(EvalBool(TRUE))

\* C25: for a non-empty child sequence with no Inconsistent child and at least
\* one child that is not Universal, Location::new_conjunction returns a
\* Conjunction location whose locations are the retained children in their
\* original order and whose invariant is true exactly in the environments where
\* every retained child's invariant is true; also for one retained child, and
\* for retained children that carry the same invariant.
C25_ConjunctionRetainsChildren ==
    (/\ op.name = "new_conjunction"
     /\ Len(op.locations) >= 1
     /\ "Inconsistent" \notin ChildVariants
     /\ ~(ChildVariants \subseteq {"Universal"}))
    =>  /\ op.result.kind = "Ok"
        /\ op.result.value.variant = "Conjunction"
        /\ op.result.value.locations = RetainedChildren
        /\ \A env \in ProbeEnvironments :
              InvariantHolds(env, op.result.value.invariant)
                  <=> \A i \in 1..Len(RetainedChildren) :
                          InvariantHolds(env, RetainedChildren[i].invariant)

\* The operands' initial environments are pairwise disjoint on keys.
OperandsDisjoint(automata) ==
    \A i, j \in 1..Len(automata) :
        i # j => DOMAIN get_initial_environment(automata[i])
                     \cap DOMAIN get_initial_environment(automata[j]) = {}

\* The union of the operands' initial environments.
OperandsEnvironment(automata) ==
    [identifier \in UNION {DOMAIN get_initial_environment(automata[i]) :
                               i \in 1..Len(automata)} |->
        get_initial_environment(
            automata[CHOOSE i \in 1..Len(automata) :
                        identifier \in DOMAIN get_initial_environment(automata[i])])[identifier]]

\* C26: Conjunction::new on operands whose initial environments are pairwise
\* disjoint on keys produces a composition whose initial environment is the
\* union of theirs and whose inputs and outputs are the unions of theirs; when
\* two operands declare the same identifier, the construction fails with an
\* error.
C26_ConjunctionEnvironment ==
    op.name = "conjunction_new" =>
        /\ OperandsDisjoint(op.automata) =>
              /\ op.result.kind = "Ok"
              /\ op.result.value.initial_environment = OperandsEnvironment(op.automata)
              /\ op.result.value.inputs =
                    UNION {get_inputs(op.automata[i]) : i \in 1..Len(op.automata)}
              /\ op.result.value.outputs =
                    UNION {get_outputs(op.automata[i]) : i \in 1..Len(op.automata)}
        /\ ~OperandsDisjoint(op.automata) => op.result.kind = "Err"

IsBooleanLiteral(expression) ==
    expression.tag = "Literal" /\ expression.value.kind = "Bool"

\* The reference truth table of the binary operators.
TruthTable(operator, a, b) ==
    CASE operator = "LogicalAnd" -> IF a THEN b ELSE FALSE
      [] operator = "LogicalOr" -> IF a THEN TRUE ELSE b
      [] operator = "Equal" -> a = b
      [] operator = "BiImplication" -> a = b
      [] operator = "NotEqual" -> a # b
      [] operator = "Implication" -> IF a THEN b ELSE TRUE

\* C27: for boolean literals a and b and each binary operator, evaluating
\* Binary(a, op, b) gives the boolean of the reference truth table.
C27_BinaryTruthTables ==
    (/\ op.name = "eval"
     /\ op.expression.tag = "Binary"
     /\ IsBooleanLiteral(op.expression.lhs)
     /\ IsBooleanLiteral(op.expression.rhs))
    => op.result = Ok(EvalBool(TruthTable(op.expression.op,
                                          op.expression.lhs.value.value,
                                          op.expression.rhs.value.value)))

\* C27 witness: false implies false was evaluated to true.
C27_Witness ==
    /\ op.name = "eval"
    /\ op.expression = Binary(new_boolean(FALSE), "Implication", new_boolean(FALSE))
    /\ op.result = Ok(EvalBool(TRUE))

Symmetric == {"LogicalAnd", "LogicalOr", "BiImplication"}

\* C28: for LogicalAnd, LogicalOr and BiImplication over boolean literals a, b
\* and c, a op b evaluates as b op a does, and a op (b op c) as (a op b) op c
\* does.
C28_CommutativeAssociative ==
    (/\ op.name = "eval"
     /\ op.expression.tag = "Binary"
     /\ op.expression.op \in Symmetric
     /\ IsBooleanLiteral(op.expression.lhs))
    =>  /\ IsBooleanLiteral(op.expression.rhs) =>
              /\ op.result.kind = "Ok"
              /\ op.result = eval_expression(op.environment,
                                 Binary(op.expression.rhs, op.expression.op,
                                        op.expression.lhs))
        /\ (/\ op.expression.rhs.tag = "Binary"
            /\ op.expression.rhs.op = op.expression.op
            /\ IsBooleanLiteral(op.expression.rhs.lhs)
            /\ IsBooleanLiteral(op.expression.rhs.rhs)) =>
              /\ op.result.kind = "Ok"
              /\ op.result = eval_expression(op.environment,
                                 Binary(Binary(op.expression.lhs, op.expression.op,
                                               op.expression.rhs.lhs),
                                        op.expression.op, op.expression.rhs.rhs))

\* C28 witness: true <-> (false <-> false) was evaluated, to true.
C28_Witness ==
    /\ op.name = "eval"
    /\ op.expression = Binary(new_boolean(TRUE), "BiImplication",
                              Binary(new_boolean(FALSE), "BiImplication",
                                     new_boolean(FALSE)))
    /\ op.result = Ok(EvalBool(TRUE))

C30_FailedOperationChangesNothing ==
    /\ (op.name = "insert" /\ op.identifier \in DOMAIN op.environment) =>
          (~op.result /\ op.environment_after = op.environment)
    /\ (op.name = "set" /\ op.identifier \notin DOMAIN op.environment) =>
          (~op.result /\ op.environment_after = op.environment)
    /\ (op.name = "concat" /\ DOMAIN op.environment \cap DOMAIN op.other # {}) =>
          (~op.result /\ op.environment_after = op.environment)

\* C30 witness: a concat with an environment that binds a shared key to
\* another value, and brings a new key, was refused.
C30_Witness ==
    /\ op.name = "concat"
    /\ op.environment = [p |-> Bool(FALSE)]
    /\ op.other = [p |-> Bool(TRUE), r |-> Bool(TRUE)]
    /\ ~op.result
    /\ op.environment_after = [p |-> Bool(FALSE)]

RECURSIVE DenotedIdentifier(_)
\* The identifier an expression denotes: an identifier literal, possibly in
\* parentheses; None for anything else.
DenotedIdentifier(expression) ==
    CASE expression.tag = "Literal" /\ expression.value.kind = "Identifier" ->
           Some(expression.value.name)
      [] expression.tag = "Parenthesized" -> DenotedIdentifier(expression.expr)
      [] OTHER -> None

\* C31: eval_statement of an Assigment returns an error and leaves the
\* interpreter's environment as it was when the left side is not an identifier
\* or names an identifier the environment does not declare; it returns no
\* error when the identifier is declared and the right side evaluates to a
\* boolean.
C31_AssignmentErrors ==
    op.name = "eval_statement" =>
        /\ (\/ DenotedIdentifier(op.statement.identifier) = None
            \/ DenotedIdentifier(op.statement.identifier).value
                   \notin DOMAIN op.environment) =>
              (op.result.kind = "Some" /\ op.environment_after = op.environment)
        /\ (/\ DenotedIdentifier(op.statement.identifier) # None
            /\ DenotedIdentifier(op.statement.identifier).value \in DOMAIN op.environment
            /\ eval_expression(op.environment, op.statement.value)
                   \in {Ok(EvalBool(TRUE)), Ok(EvalBool(FALSE))}) =>
              op.result = None

\* C32: check_expression returns Logical for every expression all of whose
\* identifiers are declared with boolean values, and returns a type error, not
\* an abort, for an expression that references an undeclared identifier at any
\* depth; check_statement returns Void for every Assigment.
C32_TypeCheckerOutcomes ==
    /\ op.name = "check_expression" =>
          /\ (\A identifier \in Identifiers(op.expression) :
                 /\ identifier \in DOMAIN op.environment
                 /\ op.environment[identifier].kind = "Bool") =>
                op.result = Ok("Logical")
          /\ (\E identifier \in Identifiers(op.expression) :
                 identifier \notin DOMAIN op.environment) =>
                (op.result.kind = "Err" /\ op.result.error.type = "TypeCheckingError")
    /\ op.name = "check_statement" => op.result = Ok("Void")

\* C35: after a successful eval_statement of an assignment to x, the
\* interpreter's environment binds x to the value the right side had in the
\* environment before the assignment and binds every other identifier as
\* before; the environment passed to Interpreter::new is not modified.
C35_AssignmentFrame ==
    (op.name = "eval_statement" /\ op.result = None) =>
        /\ eval_expression(op.environment, op.statement.value).kind = "Ok"
        /\ eval_expression(op.environment, op.statement.value).value.kind = "EvalBool"
        /\ DenotedIdentifier(op.statement.identifier) # None
        /\ op.environment_after =
              [identifier \in DOMAIN op.environment |->
                  IF identifier = DenotedIdentifier(op.statement.identifier).value
                  THEN Bool(eval_expression(op.environment,
                                            op.statement.value).value.value)
                  ELSE op.environment[identifier]]
        /\ op.passed_after = op.environment

\* C35 witness: p := z succeeded where p was false and z true; p is true
\* afterwards and z as before.
C35_Witness ==
    /\ op.name = "eval_statement"
    /\ op.statement = new_simple_assignment("p", Identifier("z"))
    /\ op.environment = [p |-> Bool(FALSE), z |-> Bool(TRUE)]
    /\ op.result = None
    /\ op.environment_after = [p |-> Bool(TRUE), z |-> Bool(TRUE)]
    /\ op.passed_after = [p |-> Bool(FALSE), z |-> Bool(TRUE)]

\* C36: evaluating Unary(Negation, e) gives the complement of the value of e.
C36_NegationComplements ==
    (/\ op.name = "eval"
     /\ op.expression.tag = "Unary"
     /\ op.expression.op = "Negation"
     /\ eval_expression(op.environment, op.expression.expr).kind = "Ok"
     /\ eval_expression(op.environment, op.expression.expr).value.kind = "EvalBool")
    => op.result =
          Ok(EvalBool(~eval_expression(op.environment,
                                       op.expression.expr).value.value))

\* C38: an expression that type-checks as Logical under an environment
\* evaluates under that environment to a boolean, never to an error and never
\* to Void; also when the environment binds an identifier to an identifier.
C38_TypedExpressionsEvaluate ==
    (op.name = "eval" /\ check_expression(op.environment, op.expression) = Ok("Logical"))
    => op.result \in {Ok(EvalBool(TRUE)), Ok(EvalBool(FALSE))}

\* ------------------------------------------------ structural queries, probed
\* An automaton is built and asked one structural query.

\* automaton.outgoing_edges(&location, &actions)
OutgoingEdgesCall ==
    /\ HasAutomaton
    /\ op = NoOp
    /\ \E location \in automaton.locations, actions \in ActionSets,
          order \in Orders(automaton.edges) :
          op' = [name |-> "outgoing_edges", location |-> location, actions |-> actions,
                 result |-> outgoing_edges(order, location, actions)]
    /\ UNCHANGED <<edges, environment, built, search, returned, expanded>>

\* automaton.ingoing_edges(&location, &actions)
IngoingEdgesCall ==
    /\ HasAutomaton
    /\ op = NoOp
    /\ \E location \in automaton.locations, actions \in ActionSets,
          order \in Orders(automaton.edges) :
          op' = [name |-> "ingoing_edges", location |-> location, actions |-> actions,
                 result |-> ingoing_edges(order, location, actions)]
    /\ UNCHANGED <<edges, environment, built, search, returned, expanded>>

\* automaton.sucedeeing_locations(&location, &actions)
SucedeeingLocationsCall ==
    /\ HasAutomaton
    /\ op = NoOp
    /\ \E location \in automaton.locations, actions \in ActionSets,
          order \in Orders(automaton.edges) :
          op' = [name |-> "sucedeeing_locations", location |-> location,
                 actions |-> actions,
                 result |-> sucedeeing_locations(order, location, actions)]
    /\ UNCHANGED <<edges, environment, built, search, returned, expanded>>

\* automaton.precedeeing_locations(&location, &actions)
PrecedeeingLocationsCall ==
    /\ HasAutomaton
    /\ op = NoOp
    /\ \E location \in automaton.locations, actions \in ActionSets,
          order \in Orders(automaton.edges) :
          op' = [name |-> "precedeeing_locations", location |-> location,
                 actions |-> actions,
                 result |-> precedeeing_locations(order, location, actions)]
    /\ UNCHANGED <<edges, environment, built, search, returned, expanded>>

NextStructure ==
    \/ New
    \/ OutgoingEdgesCall \/ IngoingEdgesCall
    \/ SucedeeingLocationsCall \/ PrecedeeingLocationsCall

SpecStructure == Init /\ [][NextStructure]_vars

\* The action subset holds a channel of the edge's action name.
ActionIn(edge, actions) == \E action \in actions : action.name = edge.action.name

\* The edges of the automaton that leave, or enter, the queried location with
\* an action of the queried subset, whatever their guards.
EdgesLeaving ==
    {edge \in automaton.edges : edge.source = op.location /\ ActionIn(edge, op.actions)}

EdgesEntering ==
    {edge \in automaton.edges : edge.target = op.location /\ ActionIn(edge, op.actions)}

\* How often a value occurs in a sequence.
CountIn(seq, value) == Cardinality({i \in 1..Len(seq) : seq[i] = value})

\* C33: outgoing_edges(l, A) is exactly the edges with source l and action in
\* A, ingoing_edges(l, A) exactly those with target l and action in A, each
\* edge once; sucedeeing_locations(l, A) is the targets of the former and
\* precedeeing_locations(l, A) the sources of the latter, one per edge; guards
\* play no part.
C33_StructuralQueriesExact ==
    /\ op.name = "outgoing_edges" =>
          (Range(op.result) = EdgesLeaving /\ Len(op.result) = Cardinality(EdgesLeaving))
    /\ op.name = "ingoing_edges" =>
          (Range(op.result) = EdgesEntering /\ Len(op.result) = Cardinality(EdgesEntering))
    /\ op.name = "sucedeeing_locations" =>
          \A location \in automaton.locations :
              CountIn(op.result, location)
                  = Cardinality({edge \in EdgesLeaving : edge.target = location})
    /\ op.name = "precedeeing_locations" =>
          \A location \in automaton.locations :
              CountIn(op.result, location)
                  = Cardinality({edge \in EdgesEntering : edge.source = location})

\* C33 witness: an edge whose guard is false was returned among the edges
\* entering a location.
C33_Witness ==
    /\ op.name = "ingoing_edges"
    /\ \E i \in 1..Len(op.result) : op.result[i].guard = Guard(new_boolean(FALSE))

\* ------------------------------------------------- the enumerator, stepped
\* An automaton is built, an enumerator made and next() called again and
\* again; a caller that keeps stepping is a weakly fair SearchStep.

\* search.next(), as often as the caller likes: what the call found (the
\* state it expanded, if any) and what it returned.
SearchStep ==
    /\ search.kind = "Some"
    /\ op.name = "next" => op.item # Panic
    /\ \E order \in Orders(automaton.edges) :
          \E step \in {search_next(search.value, order)} :
              /\ search' = Some(step.search)
              /\ op' = [name |-> "next", item |-> step.item,
                        expanded |-> IF search_started(search.value) = <<>>
                                     THEN None
                                     ELSE Some(search_started(search.value)[
                                                   Len(search_started(search.value))])]
    /\ UNCHANGED <<edges, environment, built, returned, expanded>>

NextStep == New \/ SearchNew \/ SearchStep

SpecStep == Init /\ [][NextStep]_vars /\ WF_vars(SearchStep)

\* The automaton's graph has a cycle of the simplest kind: a self-loop.
HasSelfLoop == \E edge \in edges : edge.source = edge.target

\* A call of next() that found the frontier empty and ended the enumeration.
FoundExhausted ==
    /\ op.name = "next"
    /\ op.expanded = None
    /\ op.item = None
    /\ search.value.frontier = <<>>

\* A call of next() aborted.
StepAborted == op.name = "next" /\ op.item = Panic

\* The state the last call expanded is recorded as visited and is not in the
\* frontier again.
ExpandedIsVisited ==
    (op.name = "next" /\ op.expanded.kind = "Some" /\ op.item # Panic) =>
        /\ SeqContains(search.value.visited, op.expanded.value)
        /\ ~SeqContains(search.value.frontier, op.expanded.value)

\* C34: on an automaton whose graph has a cycle, stepping the enumerator again
\* and again leads to exhaustion with an empty frontier, and a state the
\* enumerator has expanded is recorded as visited and does not enter the
\* frontier again.
C34_CyclicSearchTerminates ==
    /\ ((search.kind = "Some" /\ HasSelfLoop) ~> (FoundExhausted \/ StepAborted))
    /\ [](HasSelfLoop => ExpandedIsVisited)

\* ------------------------------------------------------- the automaton, run
\* An automaton is built and run from its initial state: each step asks for
\* the successors of the current state under some action subset and moves to
\* one of them.

\* let state = automaton.get_initial_state()
RunStart ==
    /\ HasAutomaton
    /\ op = NoOp
    /\ op' = [name |-> "run", state |-> get_initial_state(automaton), steps |-> 0]
    /\ UNCHANGED <<edges, environment, built, search, returned, expanded>>

\* state = one of automaton.successors(&state, &actions)
RunStep ==
    /\ op.name = "run"
    /\ \E actions \in ActionSets, order \in Orders(automaton.edges) :
          \E nexts \in {successors(order, op.state, actions)} :
              \/ /\ nexts.kind = "Panic"
                 /\ op' = [name |-> "aborted"]
              \/ /\ nexts.kind = "Ok"
                 /\ \E i \in 1..Len(nexts.value) :
                       op' = [name |-> "run", state |-> nexts.value[i],
                              steps |-> IF op.steps < MaxCalls THEN op.steps + 1
                                        ELSE MaxCalls]
    /\ UNCHANGED <<edges, environment, built, search, returned, expanded>>

NextRun == New \/ RunStart \/ RunStep

SpecRun == Init /\ [][NextRun]_vars

\* C37: in every state reached from the initial state by executions of enabled
\* edges, the environment declares exactly the identifiers the automaton's
\* initial environment declares, and the location is one of the automaton's
\* locations.
C37_RunKeepsDeclarations ==
    op.name = "run" =>
        /\ DOMAIN op.state.environment = DOMAIN get_initial_environment(automaton)
        /\ op.state.location \in get_locations(automaton)

\* C37 witness: two steps into a run, an update has changed a value of an
\* environment that declares two identifiers, away from the initial location.
C37_Witness ==
    /\ op.name = "run"
    /\ op.steps >= 2
    /\ op.state.location # get_initial_location(automaton)
    /\ op.state.environment # get_initial_environment(automaton)
    /\ Cardinality(DOMAIN op.state.environment) = 2

\* C39: when Automaton::new succeeds with a seed environment, the automaton's
\* initial environment is the seed environment, nothing added and no value
\* changed; and the call leaves the caller's seed environment and edge set as
\* they were.
C39_SeedIsInitialEnvironment ==
    /\ []((Built /\ result.kind = "Ok" /\ environment.kind = "Some") =>
             get_initial_environment(result.value) = environment.value)
    /\ [][built' # built => (environment' = environment /\ edges' = edges)]_vars

\* C39 witness: an automaton whose guards and updates refer to identifiers was
\* built from a seed that declares two identifiers.
C39_Witness ==
    /\ Built
    /\ result.kind = "Ok"
    /\ environment.kind = "Some"
    /\ Cardinality(DOMAIN environment.value) = 2
    /\ Referenced # {}
    /\ get_initial_environment(result.value) = environment.value

=============================================================================
